---- MODULE Spec2Model ----
(***************************************************************************)
(* Model of the TECO SSP overtime calculator's two pagination walks and    *)
(* of its overtime computation:                                            *)
(*   - OvertimeCalculatorAdvanced.get_attendance_data (src/main.py)        *)
(*   - OvertimeStatusService.fetch_submitted_records                       *)
(*     (src/src/services/overtime_status_service.py)                       *)
(*   - OvertimeCalculatorAdvanced.calculate_overtime (src/main.py)         *)
(* The portal is the environment: it answers each request with a document  *)
(* drawn from a bounded set, with an HTTP error status, or not at all      *)
(* (timeout / connection error raised by requests).                        *)
(*                                                                         *)
(* Text is a sequence of tokens.  A token stands for a run of characters:  *)
(* "D1","D2" are date-shaped runs (\d{4}/\d{1,2}/\d{1,2}), "T1".."T3" are  *)
(* clock times HH:MM:SS (they contain ':'), "~" and "_" are themselves,    *)
(* " ", "nbsp", "ideo" are U+0020, U+00A0, U+3000, "x" is any other run.   *)
(***************************************************************************)
EXTENDS Integers, Sequences, FiniteSets, TLC

VARIABLES
    pc,            \* position of get_attendance_data
    max_pages,     \* its argument
    current_page,  \* main.py:137
    soup,          \* the parsed document the walk holds
    all_records,   \* main.py:136
    seen_records,  \* main.py:145
    new_count,     \* main.py:154, value after the last dedup loop
    matcher,       \* which matcher located the grid on the last parsed page
    requests,      \* requests issued on the session by the attendance walk
    stop,          \* which exit the walk took (its closing log line)
    result,        \* value returned by get_attendance_data
    iterations,    \* number of executions of the while body
    shown,         \* per received page n: does its grid pager show label n+1
    tokens,        \* per received page: the hidden inputs its document carried
    s_pc,          \* position of fetch_submitted_records
    s_max_pages,   \* settings.MAX_PAGES
    s_soup,        \* the document object shared with _fetch_status_page
    s_total_pages, \* overtime_status_service.py:53
    s_page_num,    \* loop variable of overtime_status_service.py:58
    s_records,     \* submitted_records
    s_requests,    \* requests issued on the session by the status walk
    s_failed,      \* the _fetch_status_page calls that failed, in order
    s_served,      \* number of documents the portal has served this walk
    s_result,      \* value returned by fetch_submitted_records
    s_pages,       \* the documents the status walk has received, in order
    c_pc,          \* position of calculate_overtime
    c_records,     \* its argument
    c_idx,         \* number of records the for loop has gone through
    c_results,     \* main.py:372
    c_skipped,     \* positions of the records the loop skipped (its warnings)
    c_df,          \* rows of the DataFrame returned
    u_login_packed,  \* is the login frame on the window
    u_loading,       \* login_frame.set_loading state
    u_report_packed, \* is the report frame (refresh button) on the window
    u_auth_service,  \* MainWindow.auth_service, 0 for None
    u_data_service,  \* session held by MainWindow.data_service, 0 for None
    u_login_threads, \* the login threads started, in order
    u_fetch_threads, \* the fetch threads started, in order
    u_after,         \* callbacks handed to self.after(0, ...), in order
    u_logged_in,     \* sessions whose login has returned success
    a_walk,          \* which call of get_attendance_data is running, 0 for one call
    a_script,        \* the documents the portal serves to every call, <<>> for any
    a_first          \* what the first call returned and how it ended

attVars == <<pc, max_pages, current_page, soup, all_records, seen_records,
             new_count, matcher, requests, stop, result, iterations,
             shown, tokens>>
statusVars == <<s_pc, s_max_pages, s_soup, s_total_pages, s_page_num,
                s_records, s_requests, s_failed, s_served, s_result,
                s_pages>>
calcVars == <<c_pc, c_records, c_idx, c_results, c_skipped, c_df>>
uiVars == <<u_login_packed, u_loading, u_report_packed, u_auth_service,
            u_data_service, u_login_threads, u_fetch_threads, u_after,
            u_logged_in>>
againVars == <<a_walk, a_script, a_first>>
vars == <<attVars, statusVars, calcVars, uiVars, againVars>>

\* Largest max_pages argument of get_attendance_data explored.
MaxPagesArg == 2
\* Largest settings.MAX_PAGES explored for the status walk.
MaxStatusPagesArg == 3
\* longest page of records handed to the deduplicator on its own
MaxPageLen == 3
\* pages merged in a row by the deduplicator on its own
MaxMerges == 3
\* longest list of several records given to calculate_overtime
MaxRecords == 3

----------------------------------------------------------------------------
(* Text helpers *)

DateTokens == {"D1", "D2"}
TimeTokens == {"T1", "T2", "T3"}
SpaceTokens == {" ", "nbsp", "ideo"}

RECURSIVE LStrip(_)
LStrip(t) ==
    IF t # <<>> /\ Head(t) \in SpaceTokens THEN LStrip(Tail(t)) ELSE t

RECURSIVE RStrip(_)
RStrip(t) ==
    IF t # <<>> /\ t[Len(t)] \in SpaceTokens
    THEN RStrip(SubSeq(t, 1, Len(t) - 1))
    ELSE t

\* str.strip(): leading and trailing Unicode whitespace removed
Strip(t) == RStrip(LStrip(t))

\* re.match(r'\d{4}/\d{1,2}/\d{1,2}', text): anchored at the start only
DateShaped(t) == t # <<>> /\ t[1] \in DateTokens

HasTilde(t) == \E i \in 1..Len(t) : t[i] = "~"
HasColon(t) == \E i \in 1..Len(t) : t[i] \in TimeTokens

IsNotSpace(c) == c \notin SpaceTokens
\* .replace(U+00A0,'').replace(U+3000,'').replace(' ','').strip()
CleanTime(t) == Strip(SelectSeq(t, IsNotSpace))

\* find(): the first of the matching positions I, 0 when there is none
FirstIdx(I) ==
    IF I # {} THEN CHOOSE i \in I : \A j \in I : i <= j ELSE 0

----------------------------------------------------------------------------
(* Documents *)

\* a hidden <input name=...>: absent, present without a value attribute,
\* or present with the value the server issued
NoInput == [present |-> FALSE, hasValue |-> FALSE, value |-> 0]
BareInput == [present |-> TRUE, hasValue |-> FALSE, value |-> 0]
Input(v) == [present |-> TRUE, hasValue |-> TRUE, value |-> v]

NoDoc == [tabs2 |-> FALSE, tables |-> <<>>,
          viewstate |-> NoInput, viewstate_generator |-> NoInput,
          event_validation |-> NoInput]

Span(i, t) == [id |-> i, text |-> t]
Label(n) == [digits |-> TRUE, n |-> n]
TextLabel == [digits |-> FALSE, n |-> 0]

HeaderRow ==
    [th |-> TRUE, class |-> <<>>, ncells |-> 0, spans |-> <<>>, links |-> <<>>]
PagerRow(labels) ==
    [th |-> FALSE, class |-> <<"PagerStyle">>, ncells |-> 1, spans |-> <<>>,
     links |-> labels]
DataRow(cls, n, spans) ==
    [th |-> FALSE, class |-> <<cls>>, ncells |-> n, spans |-> spans,
     links |-> <<>>]

----------------------------------------------------------------------------
(* Table Extractor: OvertimeCalculatorAdvanced._parse_attendance_table *)

IdExact(t) == t.id = "ContentPlaceHolder1_gvWeb012"
\* re.compile('.*gvWeb012.*') also matches the exact identifier
IdPattern(t) == t.id \in {"ContentPlaceHolder1_gvWeb012", "ctl00_gvWeb012"}
\* {'cellspacing': '0', 'cellpadding': '3', 'rules': 'rows'}
HasGridAttrs(t) == t.attrs
\* the column-header phrase (attendance date) occurs in t.get_text()
HasHeaderPhrase(t) == t.header
InTabs2(t) == t.inTabs2

\* tables the first three matchers search: those inside div#tabs-2 when the
\* document has one, all tables otherwise
SearchScope(doc) ==
    IF doc.tabs2 THEN SelectSeq(doc.tables, InTabs2) ELSE doc.tables

\* variant: the structural attributes are tried before the identifiers
LocateTable_AttrsFirst(doc) ==
    LET scope == SearchScope(doc)
        a == FirstIdx({ix \in 1..Len(scope) : IdExact(scope[ix])})
        b == FirstIdx({ix \in 1..Len(scope) : IdPattern(scope[ix])})
        c == FirstIdx({ix \in 1..Len(scope) : HasGridAttrs(scope[ix])})
        d == FirstIdx({ix \in 1..Len(doc.tables) : HasHeaderPhrase(doc.tables[ix])})
    IN  IF c # 0 THEN [matcher |-> "attrs", rows |-> scope[c].rows]
        ELSE IF a # 0 THEN [matcher |-> "id", rows |-> scope[a].rows]
        ELSE IF b # 0 THEN [matcher |-> "pattern", rows |-> scope[b].rows]
        ELSE IF d # 0 THEN [matcher |-> "content", rows |-> doc.tables[d].rows]
        ELSE [matcher |-> "none", rows |-> <<>>]

\* the matcher chain; matcher 0 means no table was found
LocateTable(doc) ==
    LET scope == SearchScope(doc)
        a == FirstIdx({ix \in 1..Len(scope) : IdExact(scope[ix])})
        b == FirstIdx({ix \in 1..Len(scope) : IdPattern(scope[ix])})
        c == FirstIdx({ix \in 1..Len(scope) : HasGridAttrs(scope[ix])})
        d == FirstIdx({ix \in 1..Len(doc.tables) : HasHeaderPhrase(doc.tables[ix])})
    IN  IF a # 0 THEN [matcher |-> "id", rows |-> scope[a].rows]
        ELSE IF b # 0 THEN [matcher |-> "pattern", rows |-> scope[b].rows]
        ELSE IF c # 0 THEN [matcher |-> "attrs", rows |-> scope[c].rows]
        ELSE IF d # 0 THEN [matcher |-> "content", rows |-> doc.tables[d].rows]
        ELSE [matcher |-> "none", rows |-> <<>>]

HasClass(row, c) == \E i \in 1..Len(row.class) : row.class[i] = c
\* 'RowStyle' in row_classes is a substring test on the joined class string
RowStyleLike == {"RowStyle", "AlternatingRowStyle"}
IsDataRow(row) ==
    /\ ~row.th
    /\ ~HasClass(row, "PagerStyle")
    /\ \E i \in 1..Len(row.class) : row.class[i] \in RowStyleLike

IsDateId(sp) == sp.id = "lblWork_Date"
IsTimeId(sp) == sp.id = "lblCard_Time"
IsDateText(sp) == DateShaped(Strip(sp.text))
IsTimeText(sp) == HasTilde(Strip(sp.text)) /\ HasColon(Strip(sp.text))

\* variant: no search by shape when the identifier is not found
FieldText_IdOnly(spans, byId, byShape) ==
    LET i == FirstIdx(byId)
    IN  IF i # 0 THEN Strip(spans[i].text) ELSE <<>>

\* text of the span found by identifier, else by shape, else ''
FieldText(spans, byId, byShape) ==
    LET i == FirstIdx(byId)
        j == FirstIdx(byShape)
    IN  IF i # 0 THEN Strip(spans[i].text)
        ELSE IF j # 0 THEN Strip(spans[j].text)
        ELSE <<>>

RowDate(row) ==
    FieldText(row.spans,
              {ix \in 1..Len(row.spans) : IsDateId(row.spans[ix])},
              {ix \in 1..Len(row.spans) : IsDateText(row.spans[ix])})
RowTime(row) ==
    CleanTime(FieldText(row.spans,
                        {ix \in 1..Len(row.spans) : IsTimeId(row.spans[ix])},
                        {ix \in 1..Len(row.spans) : IsTimeText(row.spans[ix])}))

RowAccepted(row) ==
    /\ row.ncells >= 3
    /\ RowDate(row) # <<>>
    /\ RowTime(row) # <<>>
    /\ HasTilde(RowTime(row))

RECURSIVE RowsToRecords(_)
RowsToRecords(rows) ==
    IF rows = <<>> THEN <<>>
    ELSE LET r == Head(rows)
         IN  (IF IsDataRow(r) /\ RowAccepted(r)
              THEN <<[date |-> RowDate(r), time_range |-> RowTime(r)]>>
              ELSE <<>>) \o RowsToRecords(Tail(rows))

ParseAttendanceTable(doc) == RowsToRecords(LocateTable(doc).rows)

----------------------------------------------------------------------------
(* Deduplicator: the for loop of get_attendance_data *)

\* variant: the key is the date alone
RecordKey_DateOnly(r) == r.date

\* f"{record['date']}_{record['time_range']}"
RecordKey(r) == r.date \o <<"_">> \o r.time_range

\* variant: the record is appended whether or not its key was seen
MergeOne_AlwaysAppend(acc, r) ==
    [all |-> Append(acc.all, r),
     seen |-> acc.seen \cup {RecordKey(r)},
     n |-> acc.n + 1]

\* variant: an appended record's key is not marked seen
MergeOne_NoMark(acc, r) ==
    IF RecordKey(r) \notin acc.seen
    THEN [all |-> Append(acc.all, r), seen |-> acc.seen, n |-> acc.n + 1]
    ELSE acc

\* acc = [all, seen, n]; one pass of the loop body
MergeOne(acc, r) ==
    IF RecordKey(r) \notin acc.seen
    THEN [all |-> Append(acc.all, r),
          seen |-> acc.seen \cup {RecordKey(r)},
          n |-> acc.n + 1]
    ELSE acc

RECURSIVE MergeFrom(_, _)
MergeFrom(acc, records) ==
    IF records = <<>> THEN acc
    ELSE MergeFrom(MergeOne(acc, Head(records)), Tail(records))

\* variant: each page starts from an empty list and an empty seen set
MergePage_Fresh(all, seen, records) ==
    MergeFrom([all |-> <<>>, seen |-> {}, n |-> 0], records)

MergePage(all, seen, records) ==
    MergeFrom([all |-> all, seen |-> seen, n |-> 0], records)

----------------------------------------------------------------------------
(* Postback Pager: _has_next_page and _goto_next_page *)

IsPagerRow(row) == HasClass(row, "PagerStyle")
LinkTo(row, n) ==
    \E i \in 1..Len(row.links) : row.links[i].digits /\ row.links[i].n = n

\* variant: the pager is searched for the current page's own label
HasNextPage_SamePage(doc, page) ==
    LET a == FirstIdx({ix \in 1..Len(doc.tables) : IdExact(doc.tables[ix])})
        b == FirstIdx({ix \in 1..Len(doc.tables) : IdPattern(doc.tables[ix])})
        t == IF a # 0 THEN a ELSE b
    IN  IF t = 0 THEN FALSE
        ELSE LET p == FirstIdx({ix \in 1..Len(doc.tables[t].rows) : IsPagerRow(doc.tables[t].rows[ix])})
             IN  IF p = 0 THEN FALSE
                 ELSE LinkTo(doc.tables[t].rows[p], page)

\* variant: a document without the grid is taken to have a next page
HasNextPage_AssumeMore(doc, page) ==
    LET a == FirstIdx({ix \in 1..Len(doc.tables) : IdExact(doc.tables[ix])})
        b == FirstIdx({ix \in 1..Len(doc.tables) : IdPattern(doc.tables[ix])})
        t == IF a # 0 THEN a ELSE b
    IN  IF t = 0 THEN TRUE
        ELSE LET p == FirstIdx({ix \in 1..Len(doc.tables[t].rows) : IsPagerRow(doc.tables[t].rows[ix])})
             IN  IF p = 0 THEN FALSE
                 ELSE LinkTo(doc.tables[t].rows[p], page + 1)

HasNextPage(doc, page) ==
    LET a == FirstIdx({ix \in 1..Len(doc.tables) : IdExact(doc.tables[ix])})
        b == FirstIdx({ix \in 1..Len(doc.tables) : IdPattern(doc.tables[ix])})
        t == IF a # 0 THEN a ELSE b
    IN  IF t = 0 THEN FALSE
        ELSE LET p == FirstIdx({ix \in 1..Len(doc.tables[t].rows) : IsPagerRow(doc.tables[t].rows[ix])})
             IN  IF p = 0 THEN FALSE
                 ELSE LinkTo(doc.tables[t].rows[p], page + 1)

\* viewstate['value'] raises KeyError when the attribute is absent
ValueError(inp) == inp.present /\ ~inp.hasValue
\* x['value'] if x else ''
ValueOrEmpty(inp) == IF inp.present THEN <<inp.value>> ELSE <<>>

\* variant: the viewstate is not tested before the body is built
PostData_NoViewstateCheck(doc, page_num, target) ==
    IF ValueError(doc.viewstate)
       \/ ValueError(doc.viewstate_generator)
       \/ ValueError(doc.event_validation)
    THEN [send |-> FALSE, data |-> <<>>]
    ELSE [send |-> TRUE,
          data |-> [VIEWSTATE |-> ValueOrEmpty(doc.viewstate),
                    VIEWSTATEGENERATOR |-> ValueOrEmpty(doc.viewstate_generator),
                    EVENTVALIDATION |-> ValueOrEmpty(doc.event_validation),
                    EVENTTARGET |-> target,
                    EVENTARGUMENT |-> <<"Page$", page_num>>]]

\* _goto_next_page up to the POST: whether a request goes out, and its body
PostData(doc, page_num, target) ==
    IF ~doc.viewstate.present
       \/ ValueError(doc.viewstate)
       \/ ValueError(doc.viewstate_generator)
       \/ ValueError(doc.event_validation)
    THEN [send |-> FALSE, data |-> <<>>]
    ELSE [send |-> TRUE,
          data |-> [VIEWSTATE |-> <<doc.viewstate.value>>,
                    VIEWSTATEGENERATOR |-> ValueOrEmpty(doc.viewstate_generator),
                    EVENTVALIDATION |-> ValueOrEmpty(doc.event_validation),
                    EVENTTARGET |-> target,
                    EVENTARGUMENT |-> <<"Page$", page_num>>]]

GotoNextPage(doc, page_num) ==
    PostData(doc, page_num, "ctl00$ContentPlaceHolder1$gvWeb012")

\* variant: the budget test is off by one
LoopGuard_OffByOne(page, maxp) == page <= maxp + 1

\* while current_page <= max_pages
LoopGuard(page, maxp) == page <= maxp

\* variant: a page without new records ends the walk
StopsHere_OnNoNew(has_next, n_new) == ~has_next \/ n_new = 0

\* if not has_next: break
StopsHere(has_next, n_new) == ~has_next

\* if not response: break   (requests.Response is falsy when its status is
\* 4xx/5xx; None when _goto_next_page caught an exception)
ResponseTruthy(resp) == resp.kind = "ok"

\* variant: the error path returns an empty list
WalkReturn_Empty(all) == <<>>

\* return all_records
WalkReturn(all) == all

----------------------------------------------------------------------------
(* The portal's documents for the attendance grid (FW99001Z.aspx) *)

TextD1 == <<"D1">>
TextD2 == <<"D2">>
RangeA == <<"T1", "~", "T2">>
RangeB == <<"T1", "~", "T3">>

RowA ==
    DataRow("RowStyle", 3,
            <<Span("lblWork_Date", TextD1), Span("lblCard_Time", RangeA)>>)
RowB ==
    DataRow("AlternatingRowStyle", 3,
            <<Span("lblWork_Date", TextD2), Span("lblCard_Time", RangeB)>>)
\* the same record as RowB, in markup without identifiers and with padding
RowBPlain ==
    DataRow("RowStyle", 4,
            <<Span("", <<" ", "D2">>), Span("", <<"T1", "nbsp", "~", "T3", " ">>)>>)
\* a row whose time field holds no range
RowNoRange ==
    DataRow("RowStyle", 3,
            <<Span("lblWork_Date", TextD1), Span("lblCard_Time", <<"x">>)>>)

PageRows ==
    {<<>>, <<RowA>>, <<RowA, RowBPlain>>, <<RowB, RowNoRange>>,
     <<RowB, RowA, RowBPlain>>}

LinkRows ==
    {<<>>, <<TextLabel>>, [k \in 1..(MaxPagesArg + 1) |-> Label(k)]}
        \cup {<<Label(k)>> : k \in 2..(MaxPagesArg + 1)}
\* no pager row at all, or one pager row
Pagers == {<<>>} \cup {<<PagerRow(ls)>> : ls \in LinkRows}

Table(id, inTabs2, attrs, header, rows) ==
    [id |-> id, inTabs2 |-> inTabs2, attrs |-> attrs, header |-> header,
     rows |-> rows]

\* layouts: [tabs2, tables] for given grid rows
Layouts(rows) ==
    { [tabs2 |-> TRUE,
       tables |-> <<Table("ContentPlaceHolder1_gvWeb012", TRUE, TRUE, TRUE, rows)>>],
      [tabs2 |-> FALSE,
       tables |-> <<Table("menu", FALSE, FALSE, FALSE, <<>>),
                    Table("ctl00_gvWeb012", FALSE, FALSE, FALSE, rows)>>],
      [tabs2 |-> FALSE,
       tables |-> <<Table("", FALSE, TRUE, FALSE, rows)>>],
      [tabs2 |-> TRUE,
       tables |-> <<Table("", FALSE, FALSE, TRUE, rows)>>],
      [tabs2 |-> FALSE,
       tables |-> <<Table("menu", FALSE, FALSE, FALSE, rows)>>],
      [tabs2 |-> TRUE,
       tables |-> <<Table("ContentPlaceHolder1_gvWeb012", FALSE, TRUE, FALSE, rows)>>] }

\* the hidden inputs of the response with serial number v
TokenShapes(v) ==
    { [viewstate |-> Input(v), viewstate_generator |-> Input(v),
       event_validation |-> Input(v)],
      [viewstate |-> NoInput, viewstate_generator |-> Input(v),
       event_validation |-> Input(v)],
      [viewstate |-> Input(v), viewstate_generator |-> NoInput,
       event_validation |-> Input(v)],
      [viewstate |-> Input(v), viewstate_generator |-> Input(v),
       event_validation |-> NoInput],
      [viewstate |-> BareInput, viewstate_generator |-> Input(v),
       event_validation |-> Input(v)],
      [viewstate |-> Input(v), viewstate_generator |-> Input(v),
       event_validation |-> BareInput] }

MkDoc(layout, tok) ==
    [tabs2 |-> layout.tabs2, tables |-> layout.tables,
     viewstate |-> tok.viewstate,
     viewstate_generator |-> tok.viewstate_generator,
     event_validation |-> tok.event_validation]

Docs(v) ==
    { MkDoc(l, tok) :
        l \in UNION { Layouts(<<HeaderRow>> \o rs \o pg) :
                        rs \in PageRows, pg \in Pagers },
        tok \in TokenShapes(v) }

TokenOf(doc) ==
    [viewstate |-> doc.viewstate,
     viewstate_generator |-> doc.viewstate_generator,
     event_validation |-> doc.event_validation]

\* the document's gvWeb012 grid has a pager row with a numeric link labelled k
PagerShows(doc, k) ==
    \E i \in 1..Len(doc.tables) :
        /\ IdPattern(doc.tables[i])
        /\ \E j \in 1..Len(doc.tables[i].rows) :
              /\ IsPagerRow(doc.tables[i].rows[j])
              /\ LinkTo(doc.tables[i].rows[j], k)

----------------------------------------------------------------------------
(* get_attendance_data *)

NoPostData ==
    [VIEWSTATE |-> <<>>, VIEWSTATEGENERATOR |-> <<>>, EVENTVALIDATION |-> <<>>,
     EVENTTARGET |-> "", EVENTARGUMENT |-> <<>>]
GetRequest == [method |-> "GET", page |-> 1, data |-> NoPostData]
PostRequest(page_num, data) ==
    [method |-> "POST", page |-> page_num, data |-> data]

\* the body of an error response: no grid, no hidden inputs
ErrorPage == NoDoc

\* what call number v of the session gets back: any document, or the one
\* the portal's script holds when the same pages are served to every call
Served(v) ==
    IF a_script = <<>> THEN Docs(v) ELSE {a_script[v]}

\* no call has returned yet
NoFirst == [result |-> <<>>, stop |-> "running", npages |-> 0]

\* a single call with the portal free to serve anything
AgainIdle ==
    /\ a_walk = 0
    /\ a_script = <<>>
    /\ a_first = NoFirst

AttInit ==
    /\ pc = "start"
    /\ max_pages \in 1..MaxPagesArg
    /\ current_page = 1
    /\ soup = NoDoc
    /\ all_records = <<>>
    /\ seen_records = {}
    /\ new_count = 0
    /\ matcher = ""
    /\ requests = <<>>
    /\ stop = "running"
    /\ result = <<>>
    /\ iterations = 0
    /\ shown = <<>>
    /\ tokens = <<>>

AttIdle ==
    /\ pc = "idle"
    /\ max_pages = 1
    /\ current_page = 1
    /\ soup = NoDoc
    /\ all_records = <<>>
    /\ seen_records = {}
    /\ new_count = 0
    /\ matcher = ""
    /\ requests = <<>>
    /\ stop = "running"
    /\ result = <<>>
    /\ iterations = 0
    /\ shown = <<>>
    /\ tokens = <<>>

\* the function returns: its locals are gone, the caller holds the list
Return(reason, all) ==
    /\ pc' = "done"
    /\ stop' = reason
    /\ result' = WalkReturn(all)
    /\ soup' = NoDoc

\* variant: the walk keeps the document of the page it came from
AfterGoto_StaleSoup(resp) ==
    IF ~ResponseTruthy(resp)
    THEN /\ Return("goto_rejected", all_records)
         /\ UNCHANGED <<current_page, shown, tokens>>
    ELSE /\ current_page' = current_page + 1
         /\ shown' = Append(shown, PagerShows(resp.doc, current_page + 2))
         /\ tokens' = Append(tokens, TokenOf(resp.doc))
         /\ IF LoopGuard(current_page + 1, max_pages)
            THEN /\ soup' = soup
                 /\ pc' = "loop"
                 /\ UNCHANGED <<stop, result>>
            ELSE Return("budget", all_records)

\* variant: the page counter is not advanced after a page change
AfterGoto_SamePage(resp) ==
    IF ~ResponseTruthy(resp)
    THEN /\ Return("goto_rejected", all_records)
         /\ UNCHANGED <<current_page, shown, tokens>>
    ELSE /\ current_page' = current_page
         /\ shown' = Append(shown, PagerShows(resp.doc, current_page + 2))
         /\ tokens' = Append(tokens, TokenOf(resp.doc))
         /\ IF LoopGuard(current_page, max_pages)
            THEN /\ soup' = resp.doc
                 /\ pc' = "loop"
                 /\ UNCHANGED <<stop, result>>
            ELSE Return("budget", all_records)

\* main.py:175-181 and the loop test, for the value _goto_next_page returned
AfterGoto(resp) ==
    IF ~ResponseTruthy(resp)
    THEN /\ Return("goto_rejected", all_records)
         /\ UNCHANGED <<current_page, shown, tokens>>
    ELSE /\ current_page' = current_page + 1
         /\ shown' = Append(shown, PagerShows(resp.doc, current_page + 2))
         /\ tokens' = Append(tokens, TokenOf(resp.doc))
         /\ IF LoopGuard(current_page + 1, max_pages)
            THEN /\ soup' = resp.doc
                 /\ pc' = "loop"
                 /\ UNCHANGED <<stop, result>>
            ELSE Return("budget", all_records)

\* variant: the seen set outlives the call
FreshSeen_Kept(seen) == seen

\* main.py:145, seen_records = set() at every call
FreshSeen(seen) == {}

\* main.py:124-146, get_attendance_data is called again with the same
\* argument after it has returned: every local starts afresh
CallAgain ==
    /\ a_walk = 1
    /\ pc = "done"
    /\ a_walk' = 2
    /\ a_first' = [result |-> result, stop |-> stop, npages |-> Len(shown)]
    /\ pc' = "start"
    /\ current_page' = 1
    /\ soup' = NoDoc
    /\ all_records' = <<>>
    /\ seen_records' = FreshSeen(seen_records)
    /\ new_count' = 0
    /\ matcher' = ""
    /\ requests' = <<>>
    /\ stop' = "running"
    /\ result' = <<>>
    /\ iterations' = 0
    /\ shown' = <<>>
    /\ tokens' = <<>>
    /\ UNCHANGED <<max_pages, a_script>>
    /\ UNCHANGED <<statusVars, calcVars, uiVars>>

\* variant: the request is sent a second time without waiting for the answer
SendGet_Resend ==
    /\ pc = "start"
    /\ requests' = Append(requests, GetRequest)
    /\ pc' = (IF requests = <<>> THEN "start" ELSE "get_wait")
    /\ UNCHANGED <<max_pages, current_page, soup, all_records, seen_records,
                   new_count, matcher, stop, result, iterations, shown, tokens>>
    /\ UNCHANGED <<statusVars, calcVars, uiVars, againVars>>

\* main.py:141, the request goes out
SendGet ==
    /\ pc = "start"
    /\ requests' = Append(requests, GetRequest)
    /\ pc' = "get_wait"
    /\ UNCHANGED <<max_pages, current_page, soup, all_records, seen_records,
                   new_count, matcher, stop, result, iterations, shown,
                   tokens>>
    /\ UNCHANGED <<statusVars, calcVars, uiVars, againVars>>

\* main.py:141-147, the first page arrives and the loop is entered
GetResponse ==
    /\ pc = "get_wait"
    /\ \E doc \in Served(1) :
          /\ shown' = Append(shown, PagerShows(doc, 2))
          /\ tokens' = Append(tokens, TokenOf(doc))
          /\ IF LoopGuard(current_page, max_pages)
             THEN /\ soup' = doc
                  /\ pc' = "loop"
                  /\ UNCHANGED <<stop, result>>
             ELSE Return("budget", all_records)
    /\ UNCHANGED <<max_pages, current_page, all_records, seen_records,
                   new_count, matcher, requests, iterations>>
    /\ UNCHANGED <<statusVars, calcVars, uiVars, againVars>>

\* main.py:141 raises (timeout, connection error); main.py:186-188
GetRaises ==
    /\ pc = "get_wait"
    /\ Return("get_raised", all_records)
    /\ UNCHANGED <<max_pages, current_page, all_records, seen_records,
                   new_count, matcher, requests, iterations, shown, tokens>>
    /\ UNCHANGED <<statusVars, calcVars, uiVars, againVars>>

\* main.py:148-178, one pass of the loop body up to the page-change request
ProcessPage ==
    /\ pc = "loop"
    /\ LET m == MergePage(all_records, seen_records, ParseAttendanceTable(soup))
           has_next == HasNextPage(soup, current_page)
           g == GotoNextPage(soup, current_page + 1)
       IN  /\ all_records' = m.all
           /\ seen_records' = m.seen
           /\ new_count' = m.n
           /\ matcher' = LocateTable(soup).matcher
           /\ iterations' = iterations + 1
           /\ IF StopsHere(has_next, m.n)
              THEN Return("no_next", m.all) /\ UNCHANGED requests
              ELSE IF ~g.send
              THEN Return("no_token", m.all) /\ UNCHANGED requests
              ELSE /\ requests' =
                        Append(requests, PostRequest(current_page + 1, g.data))
                   /\ pc' = "post_wait"
                   /\ UNCHANGED <<soup, stop, result>>
    /\ UNCHANGED <<max_pages, current_page, shown, tokens>>
    /\ UNCHANGED <<statusVars, calcVars, uiVars, againVars>>

\* the page-change response arrives with a success status
PostResponse ==
    /\ pc = "post_wait"
    /\ \E doc \in Served(Len(shown) + 1) : AfterGoto([kind |-> "ok", doc |-> doc])
    /\ UNCHANGED <<max_pages, all_records, seen_records, new_count, matcher,
                   requests, iterations>>
    /\ UNCHANGED <<statusVars, calcVars, uiVars, againVars>>

\* the page-change response arrives with a 4xx/5xx status
PostRejected ==
    /\ pc = "post_wait"
    /\ AfterGoto([kind |-> "http_error", doc |-> ErrorPage])
    /\ UNCHANGED <<max_pages, all_records, seen_records, new_count, matcher,
                   requests, iterations>>
    /\ UNCHANGED <<statusVars, calcVars, uiVars, againVars>>

\* main.py:349-360 and 176-178: session.post raises (timeout, connection
\* error), _goto_next_page returns None, the loop breaks
PostRaises ==
    /\ pc = "post_wait"
    /\ Return("goto_raised", all_records)
    /\ UNCHANGED <<max_pages, current_page, all_records, seen_records,
                   new_count, matcher, requests, iterations, shown, tokens>>
    /\ UNCHANGED <<statusVars, calcVars, uiVars, againVars>>

----------------------------------------------------------------------------
(* Status grid: OvertimeStatusService._parse_status_table, _get_total_pages *)

\* a span of a status row: absent, or present with its text; a text is
\* empty, a number literal, or something float() rejects
NoField == [present |-> FALSE, kind |-> "empty", val |-> 0, str |-> ""]
EmptyField == [present |-> TRUE, kind |-> "empty", val |-> 0, str |-> ""]
NumField(n) == [present |-> TRUE, kind |-> "number", val |-> n, str |-> ""]
StrField(x) == [present |-> TRUE, kind |-> "text", val |-> 0, str |-> x]

\* a <tr> after the header row; idx is the N its span identifiers end with
StatusRow(idx, date, status, overtime, change) ==
    [idx |-> idx, date |-> date, status |-> status, overtime |-> overtime,
     change |-> change]

EmptyDict == [d \in {} |-> 0]

\* variant: a date already in the dictionary keeps its record
Update_KeepFirst(a, b) ==
    [d \in (DOMAIN a) \cup (DOMAIN b) |-> IF d \in DOMAIN a THEN a[d] ELSE b[d]]

\* dict.update
Update(a, b) ==
    [d \in (DOMAIN a) \cup (DOMAIN b) |-> IF d \in DOMAIN b THEN b[d] ELSE a[d]]

\* float(text) raises ValueError on text that is no number
FloatRaises(f) == f.present /\ f.kind = "text"
\* float(x.get_text(strip=True)) if x and x.get_text(strip=True) else 0.0
MinutesOf(f) == IF f.present /\ f.kind = "number" THEN f.val ELSE 0
\* status_span.get_text(strip=True) if status_span else "unknown"
StatusOf(f) == IF f.present THEN f.str ELSE "unknown"

\* variant: a row lacking a status, overtime or change span is passed over
RowRecords_SkipIncomplete(rows, k) ==
    LET r == rows[k]
    IN  IF ~r.date.present \/ r.idx # k - 1 THEN EmptyDict
        ELSE IF ~r.status.present \/ ~r.overtime.present \/ ~r.change.present
        THEN EmptyDict
        ELSE IF FloatRaises(r.overtime) \/ FloatRaises(r.change) THEN EmptyDict
        ELSE [d \in {r.date.str} |->
                [date |-> r.date.str,
                 status |-> StatusOf(r.status),
                 overtime_minutes |-> MinutesOf(r.overtime),
                 change_minutes |-> MinutesOf(r.change)]]

\* rows[k] is the k-th <tr> after the header, so i = k - 1
RowRecords(rows, k) ==
    LET r == rows[k]
    IN  IF ~r.date.present \/ r.idx # k - 1 THEN EmptyDict
        ELSE IF FloatRaises(r.overtime) \/ FloatRaises(r.change) THEN EmptyDict
        ELSE [d \in {r.date.str} |->
                [date |-> r.date.str,
                 status |-> StatusOf(r.status),
                 overtime_minutes |-> MinutesOf(r.overtime),
                 change_minutes |-> MinutesOf(r.change)]]

RECURSIVE ParseStatusRows(_, _)
ParseStatusRows(rows, k) ==
    IF k = 0 THEN EmptyDict
    ELSE Update(ParseStatusRows(rows, k - 1), RowRecords(rows, k))

ParseStatusTable(doc) ==
    IF ~doc.grid THEN EmptyDict ELSE ParseStatusRows(doc.rows, Len(doc.rows))

MaxOf(S) == CHOOSE m \in S : \A x \in S : x <= m

\* variant: the last numeric link is taken for the page count
GetTotalPages_LastLink(doc) ==
    IF doc.pager = <<>> THEN 1
    ELSE LET links == doc.pager[1]
             nums == {j \in 1..Len(links) : links[j].digits}
         IN  IF nums = {} THEN 1 ELSE links[MaxOf(nums)].n

\* doc.pager: the link labels of each <tr class="FlowPagerStyle">
GetTotalPages(doc) ==
    IF doc.pager = <<>> THEN 1
    ELSE LET links == doc.pager[1]
         IN  IF links = <<>> THEN 1
             ELSE MaxOf({1} \cup {links[i].n :
                                    i \in {j \in 1..Len(links) : links[j].digits}})

\* variant: the page limit is not applied
PageRange_NoLimit(total, maxp) ==
    IF total > 1 THEN 2..total ELSE {}

\* range(2, min(total_pages + 1, MAX_PAGES + 1))
PageRange(total, maxp) ==
    IF total > 1
    THEN 2..((IF total + 1 < maxp + 1 THEN total + 1 ELSE maxp + 1) - 1)
    ELSE {}

FetchPostData(doc, page_num) ==
    PostData(doc, page_num, "ctl00$ContentPlaceHolder1$gvFlow211")

\* return submitted_records
StatusReturn(recs) == recs

----------------------------------------------------------------------------
(* The portal's documents for the status grid *)

StatusRowSets ==
    { <<>>,
      <<StatusRow(0, StrField("D1"), StrField("approved"), NumField(60),
                  NumField(0))>>,
      <<StatusRow(0, StrField("D1"), StrField("pending"), NumField(30),
                  EmptyField),
        StatusRow(1, StrField("D2"), NoField, NoField, NoField)>>,
      <<StatusRow(0, StrField("D1"), StrField("pending"), NumField(30),
                  NumField(0)),
        StatusRow(1, StrField("D1"), StrField("rejected"), EmptyField,
                  NoField)>>,
      <<StatusRow(0, StrField("D2"), StrField("approved"), StrField("x"),
                  NumField(0)),
        StatusRow(2, StrField("D1"), StrField("approved"), NumField(60),
                  NumField(0))>> }

StatusPagers ==
    { <<>>, << <<>> >>, << <<TextLabel>> >>, << <<Label(2)>> >>,
      << <<Label(2), Label(3), TextLabel>> >>, << <<Label(3), Label(1)>> >>,
      << <<Label(2), Label(MaxStatusPagesArg + 1)>> >> }

StatusDocs(v) ==
    { [grid |-> g, rows |-> rs, pager |-> pg,
       viewstate |-> tok.viewstate,
       viewstate_generator |-> tok.viewstate_generator,
       event_validation |-> tok.event_validation] :
        g \in {TRUE}, rs \in StatusRowSets, pg \in StatusPagers,
        tok \in TokenShapes(v) }
    \cup
    { [grid |-> FALSE, rows |-> <<>>, pager |-> <<>>,
       viewstate |-> tok.viewstate,
       viewstate_generator |-> tok.viewstate_generator,
       event_validation |-> tok.event_validation] : tok \in TokenShapes(v) }

NoStatusDoc ==
    [grid |-> FALSE, rows |-> <<>>, pager |-> <<>>, viewstate |-> NoInput,
     viewstate_generator |-> NoInput, event_validation |-> NoInput]

----------------------------------------------------------------------------
(* fetch_submitted_records *)

StatusIdle ==
    /\ s_pages = <<>>
    /\ s_pc = "idle"
    /\ s_max_pages = 1
    /\ s_soup = NoStatusDoc
    /\ s_total_pages = 1
    /\ s_page_num = 1
    /\ s_records = EmptyDict
    /\ s_requests = <<>>
    /\ s_failed = <<>>
    /\ s_served = 0
    /\ s_result = EmptyDict

StatusInit ==
    /\ s_pages = <<>>
    /\ s_pc = "start"
    /\ s_max_pages \in 1..MaxStatusPagesArg
    /\ s_soup = NoStatusDoc
    /\ s_total_pages = 1
    /\ s_page_num = 1
    /\ s_records = EmptyDict
    /\ s_requests = <<>>
    /\ s_failed = <<>>
    /\ s_served = 0
    /\ s_result = EmptyDict

\* the for loop moves on, or the function returns
StatusAdvance(recs, doc) ==
    IF s_page_num + 1 \in PageRange(s_total_pages, s_max_pages)
    THEN /\ s_page_num' = s_page_num + 1
         /\ s_pc' = "fetch"
         /\ s_soup' = doc
         /\ UNCHANGED s_result
    ELSE /\ s_pc' = "done"
         /\ s_result' = StatusReturn(recs)
         /\ s_soup' = NoStatusDoc
         /\ UNCHANGED s_page_num

\* overtime_status_service.py:33, before the try: the settings object has no
\* OVERTIME_STATUS_URL (the Settings dataclass declares none), the
\* AttributeError leaves fetch_submitted_records
StatusConfigRaises ==
    /\ s_pc = "start"
    /\ s_pc' = "raised"
    /\ UNCHANGED <<s_max_pages, s_soup, s_total_pages, s_page_num, s_records,
                   s_requests, s_failed, s_served, s_result>>
    /\ UNCHANGED s_pages
    /\ UNCHANGED <<attVars, calcVars, uiVars, againVars>>

\* overtime_status_service.py:33-40, the settings object carries the URL and
\* the request goes out
StatusSendGet ==
    /\ s_pc = "start"
    /\ s_requests' = Append(s_requests, GetRequest)
    /\ s_pc' = "get_wait"
    /\ UNCHANGED <<s_max_pages, s_soup, s_total_pages, s_page_num, s_records,
                   s_failed, s_served, s_result>>
    /\ UNCHANGED s_pages
    /\ UNCHANGED <<attVars, calcVars, uiVars, againVars>>

\* overtime_status_service.py:40-58, the first page arrives
StatusGetResponse ==
    /\ s_pc = "get_wait"
    /\ \E doc \in StatusDocs(s_served + 1) :
          LET recs == Update(s_records, ParseStatusTable(doc))
              total == GetTotalPages(doc)
          IN  /\ s_records' = recs
              /\ s_pages' = Append(s_pages, doc)
              /\ s_total_pages' = total
              /\ IF 2 \in PageRange(total, s_max_pages)
                 THEN /\ s_page_num' = 2
                      /\ s_pc' = "fetch"
                      /\ s_soup' = doc
                      /\ UNCHANGED s_result
                 ELSE /\ s_pc' = "done"
                      /\ s_result' = StatusReturn(recs)
                      /\ s_soup' = NoStatusDoc
                      /\ UNCHANGED s_page_num
    /\ s_served' = s_served + 1
    /\ UNCHANGED <<s_max_pages, s_requests, s_failed>>
    /\ UNCHANGED <<attVars, calcVars, uiVars, againVars>>

\* overtime_status_service.py:40 raises; lines 66-68 return {}
StatusGetRaises ==
    /\ s_pc = "get_wait"
    /\ s_pc' = "done"
    /\ s_result' = EmptyDict
    /\ UNCHANGED <<s_max_pages, s_soup, s_total_pages, s_page_num, s_records,
                   s_requests, s_failed, s_served>>
    /\ UNCHANGED s_pages
    /\ UNCHANGED <<attVars, calcVars, uiVars, againVars>>

\* _fetch_status_page up to the POST (lines 183-208)
StatusFetchPage ==
    /\ s_pc = "fetch"
    /\ LET g == FetchPostData(s_soup, s_page_num)
       IN  IF ~g.send
           THEN /\ s_failed' =
                     Append(s_failed, [page |-> s_page_num, why |-> "no_token"])
                /\ StatusAdvance(Update(s_records, EmptyDict), s_soup)
                /\ UNCHANGED s_requests
           ELSE /\ s_requests' =
                     Append(s_requests, PostRequest(s_page_num, g.data))
                /\ s_pc' = "post_wait"
                /\ UNCHANGED <<s_failed, s_page_num, s_result, s_soup>>
    /\ UNCHANGED <<s_max_pages, s_total_pages, s_records, s_served>>
    /\ UNCHANGED s_pages
    /\ UNCHANGED <<attVars, calcVars, uiVars, againVars>>

\* lines 210-218 and 61: the page arrives, is parsed and replaces the
\* content of the shared document object
StatusPostResponse ==
    /\ s_pc = "post_wait"
    /\ \E doc \in StatusDocs(s_served + 1) :
          LET recs == Update(s_records, ParseStatusTable(doc))
          IN  /\ s_records' = recs
              /\ s_pages' = Append(s_pages, doc)
              /\ StatusAdvance(recs, doc)
    /\ s_served' = s_served + 1
    /\ UNCHANGED <<s_max_pages, s_total_pages, s_requests, s_failed>>
    /\ UNCHANGED <<attVars, calcVars, uiVars, againVars>>

\* lines 220-222 and 61: session.post raises, {} is merged, the loop goes on
StatusPostRaises ==
    /\ s_pc = "post_wait"
    /\ s_failed' = Append(s_failed, [page |-> s_page_num, why |-> "raised"])
    /\ StatusAdvance(Update(s_records, EmptyDict), s_soup)
    /\ UNCHANGED <<s_max_pages, s_total_pages, s_records, s_requests,
                   s_served>>
    /\ UNCHANGED s_pages
    /\ UNCHANGED <<attVars, calcVars, uiVars, againVars>>

----------------------------------------------------------------------------
(* calculate_overtime: texts, parsing and arithmetic *)

\* The texts of a record are sequences of tokens: Num(n) is a run of one or
\* two digits read as n, Sym(c) is the character c ("x" any other run).
Num(n) == [k |-> "num", v |-> n, c |-> ""]
Sym(ch) == [k |-> "sym", v |-> 0, c |-> ch]

LUNCH_BREAK == 70
WORK_HOURS == 480
REST_TIME == 30

\* positions of '~' in a text
Tildes(t) == {i \in 1..Len(t) : t[i] = Sym("~")}

\* time_range.split('~')
RECURSIVE Split(_)
Split(t) ==
    IF Tildes(t) = {} THEN <<t>>
    ELSE LET i == FirstIdx(Tildes(t))
         IN  <<SubSeq(t, 1, i - 1)>> \o Split(SubSeq(t, i + 1, Len(t)))

\* str.strip() on a text of these tokens
RECURSIVE StripText(_)
StripText(t) ==
    IF t = <<>> THEN t
    ELSE IF Head(t) = Sym(" ") THEN StripText(Tail(t))
    ELSE IF t[Len(t)] = Sym(" ") THEN StripText(SubSeq(t, 1, Len(t) - 1))
    ELSE t

IsNum(tok) == tok.k = "num"

LeapYear(y) == (y % 4 = 0 /\ y % 100 # 0) \/ y % 400 = 0

DaysIn(y, m) ==
    IF m = 2 THEN (IF LeapYear(y) THEN 29 ELSE 28)
    ELSE IF m \in {4, 6, 9, 11} THEN 30 ELSE 31

\* strptime with DATE_FORMAT "%Y/%m/%d": does the text convert
DateOk(d) ==
    /\ Len(d) = 5
    /\ IsNum(d[1]) /\ d[2] = Sym("/") /\ IsNum(d[3]) /\ d[4] = Sym("/")
    /\ IsNum(d[5])
    /\ d[1].v \in 1..9999
    /\ d[3].v \in 1..12
    /\ d[5].v \in 1..DaysIn(d[1].v, d[3].v)

\* strptime with TIME_FORMAT "%H:%M:%S": does the text convert
ClockOk(t) ==
    /\ Len(t) = 5
    /\ IsNum(t[1]) /\ t[2] = Sym(":") /\ IsNum(t[3]) /\ t[4] = Sym(":")
    /\ IsNum(t[5])
    /\ t[1].v \in 0..23
    /\ t[3].v \in 0..59
    /\ t[5].v \in 0..59

\* a converted date, as a number that orders dates as datetime does
DateValue(d) == (d[1].v * 12 + (d[3].v - 1)) * 31 + d[5].v

\* a converted time, in seconds after midnight of the record's date
ClockValue(t) == t[1].v * 3600 + t[3].v * 60 + t[5].v

\* datetime.strptime(f"{date} 09:00:00", ...)
StandardStart == 9 * 3600

\* variant: the later of clock-in and 09:00 is taken
ActualStart_Later(start_time) ==
    IF start_time > StandardStart THEN start_time ELSE StandardStart

\* main.py:394-398
ActualStart(start_time) ==
    IF start_time > StandardStart THEN StandardStart ELSE start_time

\* int(x) for x = a / b: truncation towards zero
IntOf(a, b) == IF a >= 0 THEN a \div b ELSE -((-a) \div b)

\* overtime in seconds: (total - lunch_break - work_hours - rest_time) * 60
OvertimeSeconds(total_seconds) ==
    total_seconds - (LUNCH_BREAK + WORK_HOURS + REST_TIME) * 60

\* round(x, 1) at the values k/10 + 0.05 = (180 + 360 k) / 3600 hours that lie
\* midway between two tenths: Python rounds the double nearest to x, which
\* is above the midpoint for the k listed here, below or on it (then to the
\* even tenth) for the others.
HalfwayUp ==
    {0, 4, 5, 6, 7, 10, 13, 15, 17, 18, 23, 24, 27, 28, 29, 33, 34, 37, 38,
     39, 41, 44, 46, 47, 49, 51, 54, 56, 57, 59, 61, 64, 66, 67, 69, 71, 74,
     76, 77, 79, 80, 81, 85, 86, 87, 90, 91, 95, 96, 97, 100, 101, 105, 106,
     107, 110, 111, 115, 116, 117, 120, 121, 125, 126, 127, 130, 131, 135,
     136, 137, 140, 141}

\* round(overtime_minutes / 60, 1) in tenths of an hour, for s >= 0 seconds
RoundUp(s) ==
    IF (s - 180) % 360 = 0
    THEN LET k == (s - 180) \div 360
         IN  IF k \in HalfwayUp THEN k + 1 ELSE k
    ELSE (s + 180) \div 360

\* round(overtime_minutes / 60, 1) in tenths of an hour; round(-x) = -round(x)
Round1(s) == IF s >= 0 THEN RoundUp(s) ELSE -RoundUp(-s)

\* variant: no upper limit
Clamp_NoCeiling(tenths) == IF tenths < 0 THEN 0 ELSE tenths

\* main.py:411-414, in tenths of an hour
Clamp(tenths) ==
    IF tenths < 0 THEN 0 ELSE IF tenths > 40 THEN 40 ELSE tenths

\* variant: the rounded value is cut to whole hours
OvertimeHours_WholeHours(total_seconds) ==
    Clamp((Round1(OvertimeSeconds(total_seconds)) \div 10) * 10)

\* main.py:405-414: overtime_hours in tenths of an hour
OvertimeHours(total_seconds) == Clamp(Round1(OvertimeSeconds(total_seconds)))

\* variant: a record with a wrong number of '~' is taken by its first part
Wellformed_FirstParts(record) ==
    LET times == Split(record.time_range)
    IN  /\ Len(times) >= 2
        /\ DateOk(record.date)
        /\ ClockOk(StripText(times[1]))
        /\ ClockOk(StripText(times[2]))

\* the record passes lines 380-393 without a continue or a ValueError
Wellformed(record) ==
    LET times == Split(record.time_range)
    IN  /\ Len(times) = 2
        /\ DateOk(record.date)
        /\ ClockOk(StripText(times[1]))
        /\ ClockOk(StripText(times[2]))

\* main.py:385-422: the row appended for a record that passes
RowOf(record) ==
    LET times == Split(record.time_range)
        start_time_str == StripText(times[1])
        end_time_str == StripText(times[2])
        total_seconds ==
            ClockValue(end_time_str) - ActualStart(ClockValue(start_time_str))
    IN  [date |-> record.date,
         start |-> start_time_str,
         end |-> end_time_str,
         total_minutes |-> IntOf(total_seconds, 60),
         overtime_hours |-> OvertimeHours(total_seconds)]

\* insertion of a row behind the rows of its date and of later dates
RECURSIVE InsertByDate(_, _)
InsertByDate(rows, row) ==
    IF rows = <<>> THEN <<row>>
    ELSE IF DateValue(Head(rows).date) >= DateValue(row.date)
    THEN <<Head(rows)>> \o InsertByDate(Tail(rows), row)
    ELSE <<row>> \o rows

RECURSIVE InsertAscending(_, _)
InsertAscending(rows, row) ==
    IF rows = <<>> THEN <<row>>
    ELSE IF DateValue(Head(rows).date) <= DateValue(row.date)
    THEN <<Head(rows)>> \o InsertAscending(Tail(rows), row)
    ELSE <<row>> \o rows

\* variant: ascending order
RECURSIVE SortValues_Ascending(_)
SortValues_Ascending(rows) ==
    IF rows = <<>> THEN <<>>
    ELSE InsertAscending(SortValues_Ascending(SubSeq(rows, 1, Len(rows) - 1)),
                         rows[Len(rows)])

\* main.py:437-441: sort_values on the parsed date, ascending=False, then
\* reset_index; frames this short are sorted by insertion, rows of one date
\* keeping their order
RECURSIVE SortValues(_)
SortValues(rows) ==
    IF rows = <<>> THEN <<>>
    ELSE InsertByDate(SortValues(SubSeq(rows, 1, Len(rows) - 1)),
                      rows[Len(rows)])

----------------------------------------------------------------------------
(* calculate_overtime: the records it is given *)

DateText(y, m, d) == <<Num(y), Sym("/"), Num(m), Sym("/"), Num(d)>>
ClockText(h, m, sec) == <<Num(h), Sym(":"), Num(m), Sym(":"), Num(sec)>>
RangeText(a, b) == a \o <<Sym("~")>> \o b

GoodDates == {DateText(2024, 3, 1), DateText(2024, 3, 2), DateText(2024, 2, 29)}
\* a day the month does not have; a text that is no date
BadDates == {DateText(2024, 2, 30), <<Sym("x")>>}

ClockIns ==
    {ClockText(0, 0, 0), ClockText(8, 30, 0), ClockText(9, 0, 0),
     ClockText(9, 0, 1), ClockText(9, 30, 0), ClockText(10, 15, 0)}

\* clock-outs before the start, around the 580 minutes that give no overtime,
\* on and next to values midway between two tenths of an hour, around the
\* four-hour limit, and at the end of the day
ClockOuts ==
    {ClockText(7, 0, 0), ClockText(18, 30, 0), ClockText(18, 40, 0),
     ClockText(18, 43, 0), ClockText(18, 49, 0), ClockText(18, 49, 1),
     ClockText(18, 55, 0), ClockText(19, 50, 0), ClockText(19, 50, 30),
     ClockText(22, 37, 0), ClockText(22, 40, 0), ClockText(22, 43, 0),
     ClockText(23, 59, 59)}

GoodRanges ==
    {RangeText(a, b) : a \in ClockIns, b \in ClockOuts}
        \cup {<<Sym(" ")>> \o ClockText(8, 30, 0) \o <<Sym(" "), Sym("~"), Sym(" ")>>
                \o ClockText(19, 50, 0) \o <<Sym(" ")>>}

\* no '~'; three parts; an empty part; an hour, a text, a short form that
\* strptime rejects
BadRanges ==
    {<<>>,
     ClockText(8, 30, 0),
     RangeText(ClockText(8, 30, 0), RangeText(ClockText(12, 0, 0), ClockText(19, 50, 0))),
     RangeText(<<>>, ClockText(19, 50, 0)),
     RangeText(ClockText(8, 30, 0), <<>>),
     RangeText(ClockText(25, 0, 0), ClockText(19, 50, 0)),
     RangeText(ClockText(8, 30, 0), <<Sym("x")>>),
     RangeText(<<Num(8), Sym(":"), Num(30)>>, ClockText(19, 50, 0))}

Record(d, t) == [date |-> d, time_range |-> t]

\* every date with every range
AllRecords ==
    {Record(d, t) : d \in GoodDates \cup BadDates, t \in GoodRanges \cup BadRanges}

\* the records that come in lists of several
ListRecords ==
    {Record(d, t) :
        d \in {DateText(2024, 3, 1), DateText(2024, 3, 2), DateText(2024, 2, 30)},
        t \in {RangeText(ClockText(8, 30, 0), ClockText(19, 50, 0)),
               RangeText(ClockText(9, 30, 0), ClockText(18, 30, 0)),
               RangeText(ClockText(10, 15, 0), ClockText(18, 30, 0)),
               ClockText(8, 30, 0)}}

RecordLists ==
    {<<r>> : r \in AllRecords}
        \cup UNION {[1..n -> ListRecords] : n \in 0..MaxRecords}

----------------------------------------------------------------------------
(* calculate_overtime *)

CalcIdle ==
    /\ c_pc = "idle"
    /\ c_records = <<>>
    /\ c_idx = 0
    /\ c_results = <<>>
    /\ c_skipped = <<>>
    /\ c_df = <<>>

CalcInit ==
    /\ c_pc = "loop"
    /\ c_records \in RecordLists
    /\ c_idx = 0
    /\ c_results = <<>>
    /\ c_skipped = <<>>
    /\ c_df = <<>>

\* main.py:374-422, a record that passes: its row is appended
CalcAppend ==
    /\ c_pc = "loop"
    /\ c_idx < Len(c_records)
    /\ Wellformed(c_records[c_idx + 1])
    /\ c_results' = Append(c_results, RowOf(c_records[c_idx + 1]))
    /\ c_idx' = c_idx + 1
    /\ UNCHANGED <<c_pc, c_records, c_skipped, c_df>>
    /\ UNCHANGED <<attVars, statusVars, uiVars, againVars>>

\* main.py:381-383 and 426-431: continue
CalcSkip ==
    /\ c_pc = "loop"
    /\ c_idx < Len(c_records)
    /\ ~Wellformed(c_records[c_idx + 1])
    /\ c_skipped' = Append(c_skipped, c_idx + 1)
    /\ c_idx' = c_idx + 1
    /\ UNCHANGED <<c_pc, c_records, c_results, c_df>>
    /\ UNCHANGED <<attVars, statusVars, uiVars, againVars>>

\* main.py:433-443
CalcReturn ==
    /\ c_pc = "loop"
    /\ c_idx = Len(c_records)
    /\ c_df' = SortValues(c_results)
    /\ c_pc' = "done"
    /\ UNCHANGED <<c_records, c_idx, c_results, c_skipped>>
    /\ UNCHANGED <<attVars, statusVars, uiVars, againVars>>

----------------------------------------------------------------------------
(* The window: login, fetch and refresh (src/ui/main_window.py) *)

\* Largest number of login threads explored.
MaxLogins == 2

\* Largest number of fetch threads explored.
MaxFetches == 3

\* the session an AuthService hands out: each service owns one session
GetSession(auth) == auth

\* main_window.py:24-75, the window after construction
UIInit ==
    /\ u_login_packed = TRUE
    /\ u_loading = FALSE
    /\ u_report_packed = FALSE
    /\ u_auth_service = 0
    /\ u_data_service = 0
    /\ u_login_threads = <<>>
    /\ u_fetch_threads = <<>>
    /\ u_after = <<>>
    /\ u_logged_in = {}

\* no window
UIIdle ==
    /\ u_login_packed = FALSE
    /\ u_loading = FALSE
    /\ u_report_packed = FALSE
    /\ u_auth_service = 0
    /\ u_data_service = 0
    /\ u_login_threads = <<>>
    /\ u_fetch_threads = <<>>
    /\ u_after = <<>>
    /\ u_logged_in = {}

\* main_window.py:77-99, on_login with both fields filled in
OnLogin ==
    /\ Len(u_login_threads) < MaxLogins
    /\ u_loading' = TRUE
    /\ u_login_threads' = Append(u_login_threads, [pc |-> "start", target |-> 0])
    /\ UNCHANGED <<u_login_packed, u_report_packed, u_auth_service,
                   u_data_service, u_fetch_threads, u_after>>
    /\ UNCHANGED u_logged_in
    /\ UNCHANGED <<attVars, statusVars, calcVars, againVars>>

\* login_frame.py:62-69: the login button, which set_loading disables
ClickLogin ==
    /\ u_login_packed
    /\ ~u_loading
    /\ OnLogin

\* login_frame.py:58: Return in the password field. set_loading (84-86)
\* sets the field's state, which stops editing; the binding stays and the
\* field keeps the keyboard focus while the frame is on the window.
PressReturn ==
    /\ u_login_packed
    /\ OnLogin

\* main_window.py:86, the thread builds its AuthService
LoginThreadCreate(i) ==
    /\ u_login_threads[i].pc = "start"
    /\ u_auth_service' = i
    /\ u_login_threads' = [u_login_threads EXCEPT ![i].pc = "created"]
    /\ UNCHANGED <<u_login_packed, u_loading, u_report_packed, u_data_service,
                   u_fetch_threads, u_after>>
    /\ UNCHANGED u_logged_in
    /\ UNCHANGED <<attVars, statusVars, calcVars, againVars>>

\* main_window.py:89, the thread reads self.auth_service and calls login
LoginThreadCall(i) ==
    /\ u_login_threads[i].pc = "created"
    /\ u_login_threads' = [u_login_threads EXCEPT ![i] =
                              [pc |-> "login", target |-> u_auth_service]]
    /\ UNCHANGED <<u_login_packed, u_loading, u_report_packed, u_auth_service,
                   u_data_service, u_fetch_threads, u_after, u_logged_in>>
    /\ UNCHANGED <<attVars, statusVars, calcVars, againVars>>

\* main_window.py:89-96, login returns or raises and the callback is queued
LoginThreadReturn(i) ==
    /\ u_login_threads[i].pc = "login"
    /\ \E success \in BOOLEAN :
          /\ u_after' = Append(u_after, [fn |-> "_on_login_complete", ok |-> success])
          /\ u_logged_in' = IF success
                            THEN u_logged_in \cup {GetSession(u_login_threads[i].target)}
                            ELSE u_logged_in
    /\ u_login_threads' = [u_login_threads EXCEPT ![i].pc = "done"]
    /\ UNCHANGED <<u_login_packed, u_loading, u_report_packed, u_auth_service,
                   u_data_service, u_fetch_threads>>
    /\ UNCHANGED <<attVars, statusVars, calcVars, againVars>>

\* main_window.py:121-145, fetch_data starts a thread
FetchData(threads) == Append(threads, [pc |-> "start", session |-> 0])

\* main_window.py:101-119
OnLoginComplete ==
    /\ u_after # <<>>
    /\ Head(u_after).fn = "_on_login_complete"
    /\ u_after' = Tail(u_after)
    /\ u_loading' = FALSE
    /\ IF Head(u_after).ok
       THEN /\ u_login_packed' = FALSE
            /\ u_data_service' = GetSession(u_auth_service)
            /\ u_fetch_threads' = FetchData(u_fetch_threads)
       ELSE UNCHANGED <<u_login_packed, u_data_service, u_fetch_threads>>
    /\ UNCHANGED <<u_report_packed, u_auth_service, u_login_threads>>
    /\ UNCHANGED u_logged_in
    /\ UNCHANGED <<attVars, statusVars, calcVars, againVars>>

\* main_window.py:128, the thread reads data_service and enters the walk
FetchThreadCall(i) ==
    /\ u_fetch_threads[i].pc = "start"
    /\ u_fetch_threads' = [u_fetch_threads EXCEPT ![i] =
                              [pc |-> "walking", session |-> u_data_service]]
    /\ UNCHANGED <<u_login_packed, u_loading, u_report_packed, u_auth_service,
                   u_data_service, u_login_threads, u_after>>
    /\ UNCHANGED u_logged_in
    /\ UNCHANGED <<attVars, statusVars, calcVars, againVars>>

\* main_window.py:128-142: the walk returns (records or none) or raises,
\* the report is calculated and the callback is queued
FetchThreadReturn(i) ==
    /\ u_fetch_threads[i].pc = "walking"
    /\ \E report \in BOOLEAN :
          u_after' = Append(u_after, [fn |-> "_on_fetch_complete", ok |-> report])
    /\ u_fetch_threads' = [u_fetch_threads EXCEPT ![i].pc = "done"]
    /\ UNCHANGED <<u_login_packed, u_loading, u_report_packed, u_auth_service,
                   u_data_service, u_login_threads>>
    /\ UNCHANGED u_logged_in
    /\ UNCHANGED <<attVars, statusVars, calcVars, againVars>>

\* main_window.py:147-161
OnFetchComplete ==
    /\ u_after # <<>>
    /\ Head(u_after).fn = "_on_fetch_complete"
    /\ u_after' = Tail(u_after)
    /\ u_report_packed' = (Head(u_after).ok \/ u_report_packed)
    /\ UNCHANGED <<u_login_packed, u_loading, u_auth_service, u_data_service,
                   u_login_threads, u_fetch_threads>>
    /\ UNCHANGED u_logged_in
    /\ UNCHANGED <<attVars, statusVars, calcVars, againVars>>

\* main_window.py:196-200 behind report_frame.py:45-51, the refresh button
ClickRefresh ==
    /\ u_report_packed
    /\ u_data_service # 0
    /\ Len(u_fetch_threads) < MaxFetches
    /\ u_report_packed' = FALSE
    /\ u_fetch_threads' = FetchData(u_fetch_threads)
    /\ UNCHANGED <<u_login_packed, u_loading, u_auth_service, u_data_service,
                   u_login_threads, u_after>>
    /\ UNCHANGED u_logged_in
    /\ UNCHANGED <<attVars, statusVars, calcVars, againVars>>

----------------------------------------------------------------------------
(* Specifications *)

Init == AttInit /\ StatusIdle /\ CalcIdle /\ UIIdle /\ AgainIdle

Next ==
    \/ SendGet
    \/ GetResponse
    \/ GetRaises
    \/ ProcessPage
    \/ PostResponse
    \/ PostRejected
    \/ PostRaises

\* the attendance walk
Spec == Init /\ [][Next]_vars

StatusNext ==
    \/ StatusConfigRaises
    \/ StatusSendGet
    \/ StatusGetResponse
    \/ StatusGetRaises
    \/ StatusFetchPage
    \/ StatusPostResponse
    \/ StatusPostRaises

InitStatus == StatusInit /\ AttIdle /\ CalcIdle /\ UIIdle /\ AgainIdle

\* the status walk
SpecStatus == InitStatus /\ [][StatusNext]_vars

InitWalks == Init \/ InitStatus

WalksNext == Next \/ StatusNext

\* one call of either walk
SpecWalks == InitWalks /\ [][WalksNext]_vars

\* the records _parse_attendance_table can hand over: a date and a cleaned
\* time range each
ParsedRecords ==
    {[date |-> d, time_range |-> t] :
        d \in {TextD1, TextD2}, t \in {RangeA, RangeB}}

RecordPages ==
    UNION {[1..n -> ParsedRecords] : n \in 0..MaxPageLen}

InitMerge ==
    /\ pc = "merge"
    /\ max_pages = 1
    /\ current_page = 1
    /\ soup = NoDoc
    /\ all_records = <<>>
    /\ seen_records = {}
    /\ new_count = 0
    /\ matcher = ""
    /\ requests = <<>>
    /\ stop = "running"
    /\ result = <<>>
    /\ iterations = 0
    /\ shown = <<>>
    /\ tokens = <<>>
    /\ StatusIdle
    /\ CalcIdle
    /\ UIIdle
    /\ AgainIdle

\* main.py:153-161 for one page of parsed records
MergeStep ==
    /\ pc = "merge"
    /\ iterations < MaxMerges
    /\ \E records \in RecordPages :
          LET m == MergePage(all_records, seen_records, records)
          IN  /\ all_records' = m.all
              /\ seen_records' = m.seen
              /\ new_count' = m.n
    /\ iterations' = iterations + 1
    /\ UNCHANGED <<pc, max_pages, current_page, soup, matcher, requests, stop,
                   result, shown, tokens>>
    /\ UNCHANGED <<statusVars, calcVars, uiVars, againVars>>

\* the deduplicator fed page after page
SpecMerge == InitMerge /\ [][MergeStep]_vars

InitCalc == CalcInit /\ AttIdle /\ StatusIdle /\ UIIdle /\ AgainIdle

CalcNext ==
    \/ CalcAppend
    \/ CalcSkip
    \/ CalcReturn

\* one call of calculate_overtime
SpecCalc == InitCalc /\ [][CalcNext]_vars

InitUI == UIInit /\ AttIdle /\ StatusIdle /\ CalcIdle /\ AgainIdle

UINext ==
    \/ ClickLogin
    \/ PressReturn
    \/ \E i \in 1..Len(u_login_threads) : LoginThreadCreate(i)
    \/ \E i \in 1..Len(u_login_threads) : LoginThreadCall(i)
    \/ \E i \in 1..Len(u_login_threads) : LoginThreadReturn(i)
    \/ OnLoginComplete
    \/ \E i \in 1..Len(u_fetch_threads) : FetchThreadCall(i)
    \/ \E i \in 1..Len(u_fetch_threads) : FetchThreadReturn(i)
    \/ OnFetchComplete
    \/ ClickRefresh

\* the window and its threads
SpecUI == InitUI /\ [][UINext]_vars

\* spans a first cell can hold: with and without identifiers, date-shaped,
\* range-like, both, neither, padded, empty
CellSpans ==
    {Span("lblWork_Date", TextD2), Span("lblCard_Time", RangeB),
     Span("", TextD1), Span("", <<" ", "D2", "x">>),
     Span("", RangeA), Span("", <<"T1", "nbsp", "~", "T3", " ">>),
     Span("", <<"D1", " ", "T1", "~", "T2">>),
     Span("", <<"~">>), Span("", <<"T1">>), Span("", <<"x">>), Span("", <<>>)}

\* most spans in a first cell
MaxSpans == 3

\* most tables in a document given to the parser on its own
MaxTables == 2

\* rows of two or three cells whose first cell holds up to MaxSpans spans
CellRows ==
    {DataRow("RowStyle", n, sp) :
        n \in 2..3, sp \in UNION {[1..k -> CellSpans] : k \in 0..MaxSpans}}

TableIds == {"ContentPlaceHolder1_gvWeb012", "ctl00_gvWeb012", "menu"}

\* the k-th table of a document carries its own record, so the records tell
\* which table was read
TableRows(k) ==
    IF k = 1 THEN <<HeaderRow, RowA>> ELSE <<HeaderRow, RowB>>

\* documents with up to MaxTables tables of every kind, inside or outside
\* div#tabs-2
TableLayouts ==
    UNION {
      { [tabs2 |-> t2,
         tables |-> [k \in 1..n |->
                        Table(f[k].id, f[k].inTabs2 /\ t2, f[k].attrs,
                              f[k].header, TableRows(k))]] :
          f \in [1..n -> [id : TableIds, inTabs2 : BOOLEAN, attrs : BOOLEAN,
                          header : BOOLEAN]] } :
      n \in 1..MaxTables, t2 \in BOOLEAN }

\* the hidden inputs play no part in parsing: one complete set
ParseToken ==
    [viewstate |-> Input(1), viewstate_generator |-> Input(1),
     event_validation |-> Input(1)]

ParseDocs ==
    {MkDoc([tabs2 |-> TRUE,
            tables |-> <<Table("ContentPlaceHolder1_gvWeb012", TRUE, TRUE, TRUE,
                               <<HeaderRow, r>>)>>], tok) :
        r \in CellRows, tok \in {ParseToken}}
    \cup
    {MkDoc(l, tok) :
        l \in TableLayouts, tok \in {ParseToken}}

InitParse ==
    /\ pc = "parse"
    /\ max_pages = 1
    /\ current_page = 1
    /\ soup \in ParseDocs
    /\ all_records = <<>>
    /\ seen_records = {}
    /\ new_count = 0
    /\ matcher = ""
    /\ requests = <<>>
    /\ stop = "running"
    /\ result = <<>>
    /\ iterations = 0
    /\ shown = <<>>
    /\ tokens = <<>>
    /\ StatusIdle
    /\ CalcIdle
    /\ UIIdle
    /\ AgainIdle

\* main.py:190-306, one call of _parse_attendance_table; result holds the
\* list it returns
ParseStep ==
    /\ pc = "parse"
    /\ pc' = "parsed"
    /\ matcher' = LocateTable(soup).matcher
    /\ result' = ParseAttendanceTable(soup)
    /\ UNCHANGED <<max_pages, current_page, soup, all_records, seen_records,
                   new_count, requests, stop, iterations, shown, tokens>>
    /\ UNCHANGED <<statusVars, calcVars, uiVars, againVars>>

\* the table parser on its own
SpecParse == InitParse /\ [][ParseStep]_vars

\* documents of the portal's script: the grid under its exact identifier,
\* with or without the view-state
ScriptDocs(v) ==
    {d \in Docs(v) :
        /\ d.tabs2
        /\ d.tables[1].id = "ContentPlaceHolder1_gvWeb012"
        /\ d.tables[1].inTabs2
        /\ Len(d.tables[1].rows) >= 2
        /\ d.tables[1].rows[2] = RowA
        /\ \A k \in 1..Len(d.tables[1].rows) :
              d.tables[1].rows[k].links # <<TextLabel>>
        /\ d.viewstate.present = d.viewstate.hasValue
        /\ d.viewstate_generator = Input(v)
        /\ d.event_validation = Input(v)}

\* one document for each request a call can make (the call asks for page
\* max_pages + 1 before it stops)
RECURSIVE ScriptsOf(_)
ScriptsOf(n) ==
    IF n = 0 THEN {<<>>}
    ELSE {Append(sc, d) : sc \in ScriptsOf(n - 1), d \in ScriptDocs(n)}

Scripts == ScriptsOf(MaxPagesArg + 1)

InitTwice ==
    /\ AttInit
    /\ a_walk = 1
    /\ a_script \in Scripts
    /\ a_first = NoFirst
    /\ StatusIdle
    /\ CalcIdle
    /\ UIIdle

TwiceNext == Next \/ CallAgain

\* two calls of get_attendance_data, one after the other, on a portal that
\* serves both the same pages
SpecTwice == InitTwice /\ [][TwiceNext]_vars

\* field texts with an underscore in them: a date followed by more text
\* (the date pattern is anchored at the start only) and a range after a prefix
DateUnder == <<"D1", "_", "x">>
RangeUnder == <<"x", "_", "T1", "~", "T2">>

\* rows of three cells, with and without span identifiers, over those texts
KeyRows ==
    {DataRow("RowStyle", 3, <<Span(di, d), Span(ti, t)>>) :
        d \in {TextD1, TextD2, DateUnder},
        t \in {RangeA, RangeB, RangeUnder},
        di \in {"lblWork_Date", ""}, ti \in {"lblCard_Time", ""}}

\* one page of the grid with two such rows
KeyDocs ==
    {MkDoc([tabs2 |-> TRUE,
            tables |-> <<Table("ContentPlaceHolder1_gvWeb012", TRUE, TRUE, TRUE,
                               <<HeaderRow, r1, r2>>)>>], ParseToken) :
        r1 \in KeyRows, r2 \in KeyRows}

InitKeys ==
    /\ pc = "page"
    /\ max_pages = 1
    /\ current_page = 1
    /\ soup \in KeyDocs
    /\ all_records = <<>>
    /\ seen_records = {}
    /\ new_count = 0
    /\ matcher = ""
    /\ requests = <<>>
    /\ stop = "running"
    /\ result = <<>>
    /\ iterations = 0
    /\ shown = <<>>
    /\ tokens = <<>>
    /\ StatusIdle
    /\ CalcIdle
    /\ UIIdle
    /\ AgainIdle

\* main.py:151-161, the first page is parsed and its records merged; result
\* holds the list the parser returned (the local `records`)
KeysStep ==
    /\ pc = "page"
    /\ pc' = "merged"
    /\ LET records == ParseAttendanceTable(soup)
           m == MergePage(all_records, seen_records, records)
       IN  /\ result' = records
           /\ all_records' = m.all
           /\ seen_records' = m.seen
           /\ new_count' = m.n
    /\ matcher' = LocateTable(soup).matcher
    /\ iterations' = iterations + 1
    /\ UNCHANGED <<max_pages, current_page, soup, requests, stop, shown, tokens>>
    /\ UNCHANGED <<statusVars, calcVars, uiVars, againVars>>

\* extraction and dedup of one page
SpecKeys == InitKeys /\ [][KeysStep]_vars

----------------------------------------------------------------------------
(* Properties of the attendance walk *)

\* all three hidden inputs are present and carry a value
TokenComplete(t) ==
    /\ t.viewstate.present /\ t.viewstate.hasValue
    /\ t.viewstate_generator.present /\ t.viewstate_generator.hasValue
    /\ t.event_validation.present /\ t.event_validation.hasValue

\* some hidden input element is missing from the document
SomeFieldMissing(t) ==
    \/ ~t.viewstate.present
    \/ ~t.viewstate_generator.present
    \/ ~t.event_validation.present

NoDuplicates(seq) ==
    \A i, j \in 1..Len(seq) : i # j => seq[i] # seq[j]

PostsOf(reqs) == {k \in 1..Len(reqs) : reqs[k].method = "POST"}

\* no request of the walk failed
NoRequestFailed == stop \notin {"get_raised", "goto_raised", "goto_rejected"}

\* C1: the walk never issues more requests (the GET plus the page-change
\* POSTs) than max_pages.
C1_RequestsWithinBudget == Len(requests) <= max_pages

\* C2: when no request fails, a finished walk has stopped at the first page N
\* (N <= max_pages, pages before it carrying their tokens) whose pager shows
\* no link N+1, after exactly N requests: one GET followed by N-1 POSTs; and
\* it has not stopped before such a page.
C2_ExactlyNFetches ==
    (pc = "done" /\ NoRequestFailed) =>
        /\ \A N \in 1..Len(shown) :
              ( /\ N <= max_pages
                /\ ~shown[N]
                /\ \A n \in 1..(N - 1) : shown[n] /\ TokenComplete(tokens[n]) )
              => /\ Len(requests) = N
                 /\ current_page = N
                 /\ requests[1].method = "GET"
                 /\ \A k \in 2..N : requests[k].method = "POST"
        /\ \/ \E N \in 1..Len(shown) : ~shown[N] \/ ~TokenComplete(tokens[N])
           \/ Len(shown) > max_pages

C2_Witness ==
    /\ pc = "done"
    /\ stop = "no_next"
    /\ shown = <<TRUE, FALSE>>
    /\ TokenComplete(tokens[1])
    /\ Len(requests) = 2
    /\ requests[2].method = "POST"

\* steps the walk has taken: requests sent, responses received, loop bodies
\* run, and the return
Progress ==
    Len(requests) + Len(shown) + iterations + (IF pc = "done" THEN 1 ELSE 0)

\* C3: the loop body never runs more than max_pages times, and every step of
\* the walk advances a measure that max_pages bounds, so no walk runs forever,
\* whatever the portal answers; the walk that has returned holds its records.
C3_Terminates ==
    /\ [](iterations <= max_pages)
    /\ [](Progress <= 3 * max_pages + 3)
    /\ [](pc = "done" => result = all_records)
    /\ [][Progress' > Progress]_vars

C3_Witness ==
    /\ pc = "done"
    /\ max_pages = MaxPagesArg
    /\ iterations = max_pages
    /\ stop = "budget"

C5_TokenOfPrecedingPage ==
    /\ \A k \in 2..Len(requests) :
          /\ requests[k].method = "POST"
          /\ requests[k].page = k
          /\ requests[k].data.EVENTARGUMENT = <<"Page$", k>>
          /\ k - 1 <= Len(tokens)
          /\ requests[k].data.VIEWSTATE = <<tokens[k - 1].viewstate.value>>
          /\ tokens[k - 1].viewstate.present /\ tokens[k - 1].viewstate.hasValue
          /\ requests[k].data.VIEWSTATEGENERATOR =
                (IF tokens[k - 1].viewstate_generator.present
                 THEN <<tokens[k - 1].viewstate_generator.value>> ELSE <<>>)
          /\ requests[k].data.EVENTVALIDATION =
                (IF tokens[k - 1].event_validation.present
                 THEN <<tokens[k - 1].event_validation.value>> ELSE <<>>)
    /\ \A j, k \in PostsOf(requests) :
          j # k => requests[j].data.VIEWSTATE # requests[k].data.VIEWSTATE

C5_Witness ==
    /\ Len(requests) = 3
    /\ requests[3].data.VIEWSTATE = <<2>>
    /\ requests[2].data.VIEWSTATE = <<1>>

\* C7: a step out of the wait for a page-change response in which no document
\* arrived ends the walk: no request is added, the accumulated records are
\* returned unchanged and without duplicate keys; and a finished walk issues
\* nothing more.
C7_PostFailureAborts ==
    [][ /\ (pc = "post_wait" /\ tokens' = tokens) =>
              /\ pc' = "done"
              /\ requests' = requests
              /\ all_records' = all_records
              /\ result' = all_records
              /\ NoDuplicates([i \in 1..Len(result') |-> RecordKey(result'[i])])
        /\ pc = "done" => (requests' = requests /\ result' = result) ]_vars

C7_Witness ==
    /\ pc = "done"
    /\ stop = "goto_raised"
    /\ Len(requests) = 3
    /\ Len(result) = 2

\* C9 as stated: a page on which no matcher locates the grid does not end the
\* walk: within the budget and with its token present, the next page is
\* requested.
C9_MissContinues ==
    [][ (pc = "loop" /\ LocateTable(soup).matcher = "none"
         /\ current_page < max_pages /\ TokenComplete(TokenOf(soup)))
        => pc' = "post_wait" ]_vars

\* C9 amended: a page on which no matcher locates the grid adds no record and
\* raises nothing; the next page is requested exactly when the document still
\* holds a gvWeb012 table whose pager links to it (and the token can be
\* sent); otherwise the walk ends there and returns what it had accumulated.
C9_MissYieldsNoRows ==
    [][ (pc = "loop" /\ LocateTable(soup).matcher = "none") =>
          /\ all_records' = all_records
          /\ seen_records' = seen_records
          /\ new_count' = 0
          /\ pc' \in {"post_wait", "done"}
          /\ TokenComplete(TokenOf(soup)) =>
                (pc' = "post_wait" <=> PagerShows(soup, current_page + 1))
          /\ ~PagerShows(soup, current_page + 1) =>
                (pc' = "done" /\ stop' = "no_next" /\ result' = all_records) ]_vars

C9_Witness ==
    /\ pc = "done"
    /\ stop = "no_next"
    /\ matcher = "none"
    /\ current_page = 2
    /\ new_count = 0
    /\ Len(result) = 2

\* C10: whatever a page contributed, when its pager shows the next label, the
\* page number is below max_pages and its token is complete, the next page is
\* requested, and once that request succeeds the walk is on the next page.
C10_NoNewRowsGoesOn ==
    [][ /\ ( /\ pc = "loop"
             /\ PagerShows(soup, current_page + 1)
             /\ current_page < max_pages
             /\ TokenComplete(TokenOf(soup)) ) =>
              /\ pc' = "post_wait"
              /\ Len(requests') = Len(requests) + 1
              /\ requests'[Len(requests')].page = current_page + 1
        /\ (pc = "post_wait" /\ tokens' # tokens /\ current_page < max_pages) =>
              /\ pc' = "loop"
              /\ current_page' = current_page + 1
              /\ TokenOf(soup') = tokens'[Len(tokens')] ]_vars

C10_Witness ==
    /\ pc = "loop"
    /\ current_page = 2
    /\ iterations = 1
    /\ new_count = 0
    /\ all_records = <<>>

----------------------------------------------------------------------------
(* Properties of the status walk *)

\* C6: no two page-change requests of the status walk carry the same
\* viewstate.
C6_StatusTokenOnce ==
    \A j, k \in PostsOf(s_requests) :
        j # k => s_requests[j].data.VIEWSTATE # s_requests[k].data.VIEWSTATE

\* C8: once a page request of the status walk has failed, no further request
\* is issued.
C8_StatusAbortsOnFailure ==
    [][ s_failed # <<>> => s_requests' = s_requests ]_vars


----------------------------------------------------------------------------
(* Properties of the deduplicator *)

KeysOf(seq) == {RecordKey(seq[i]) : i \in 1..Len(seq)}

\* positions of recs whose key is neither in seen nor at an earlier position
FirstSeen(seen, recs) ==
    {i \in 1..Len(recs) :
        /\ RecordKey(recs[i]) \notin seen
        /\ \A j \in 1..(i - 1) : RecordKey(recs[j]) # RecordKey(recs[i])}

\* s is t with its elements at the positions I appended, in their order
AppendedAt(s, t, recs, I) ==
    /\ Len(s) = Len(t) + Cardinality(I)
    /\ \A i \in 1..Len(t) : s[i] = t[i]
    /\ \A i \in I :
          s[Len(t) + Cardinality({j \in I : j <= i})] = recs[i]

\* C12: a loop pass appends exactly the page's records whose key is not yet
\* seen (the first of equal keys within the page), in page order, and marks
\* every key of the page seen; at all times the result has no two records
\* with one key and its keys are exactly the seen set.
C12_AppendedIffUnseen ==
    /\ [](\A i, j \in 1..Len(all_records) :
             i # j => RecordKey(all_records[i]) # RecordKey(all_records[j]))
    /\ [](KeysOf(all_records) = seen_records)
    /\ [][pc = "loop" =>
            LET recs == ParseAttendanceTable(soup)
            IN  /\ AppendedAt(all_records', all_records, recs,
                              FirstSeen(seen_records, recs))
                /\ seen_records' = seen_records \cup KeysOf(recs)
                /\ new_count' = Cardinality(FirstSeen(seen_records, recs))]_vars
    /\ [][pc # "loop" =>
            all_records' = all_records /\ seen_records' = seen_records]_vars

\* a page with a key seen on an earlier page, a key repeated within the page
\* and a new key has been merged
C12_Witness ==
    /\ pc = "post_wait"
    /\ iterations = 2
    /\ Len(ParseAttendanceTable(soup)) = 3
    /\ new_count = 1
    /\ Len(all_records) = 2
    /\ all_records[1].date = TextD1
    /\ all_records[2].date = TextD2

\* the list and the key set after one more page
Merged(all, seen, records) ==
    LET m == MergePage(all, seen, records) IN <<m.all, m.seen>>

\* C13: from every accumulated state, merging a page and then the same page
\* again leaves the list and the seen set as merging it once does, the second
\* merge counting no new record.
C13_MergeIdempotent ==
    \A records \in RecordPages :
        LET once == MergePage(all_records, seen_records, records)
            twice == MergePage(once.all, once.seen, records)
        IN  /\ twice.all = once.all
            /\ twice.seen = once.seen
            /\ twice.n = 0

\* a page with a repeated key has been merged a second time
C13_Witness ==
    LET records == <<[date |-> TextD1, time_range |-> RangeA],
                     [date |-> TextD2, time_range |-> RangeB],
                     [date |-> TextD1, time_range |-> RangeA]>>
    IN  /\ pc = "merge"
        /\ iterations = 2
        /\ new_count = 0
        /\ Merged(<<>>, {}, records) = <<all_records, seen_records>>

IsPrefix(s, t) ==
    Len(s) <= Len(t) /\ \A i \in 1..Len(s) : s[i] = t[i]

\* C15: in every step of the attendance walk the seen keys stay seen and the
\* accumulated records stay where they are in the list, whatever the page
\* holds and whether or not a request fails; the walk returns all of them.
C15_KeysNeverShrink ==
    /\ [][ /\ seen_records \subseteq seen_records'
           /\ IsPrefix(all_records, all_records')
           /\ KeysOf(all_records) \subseteq KeysOf(all_records')
           /\ pc' = "done" => result' = all_records' ]_vars
    /\ [](pc = "done" => KeysOf(result) = seen_records)

\* two records were accumulated, then a page without new records came and
\* the request after it was rejected
C15_Witness ==
    /\ pc = "done"
    /\ stop = "goto_rejected"
    /\ iterations = 2
    /\ new_count = 0
    /\ Len(result) = 2
    /\ Cardinality(seen_records) = 2

SetOf(seq) == {seq[i] : i \in 1..Len(seq)}

Occurrences(seq, r) == Cardinality({i \in 1..Len(seq) : seq[i] = r})

\* q holds the records of p in some order
Rearranged(p, q) ==
    /\ Len(p) = Len(q)
    /\ \A r \in ParsedRecords : Occurrences(p, r) = Occurrences(q, r)

----------------------------------------------------------------------------
(* Properties of both walks *)

\* the k-th request of a walk is for page k: a GET for page 1, then POSTs
\* whose __EVENTARGUMENT names page k
Sequential(reqs) ==
    \A k \in 1..Len(reqs) :
        /\ reqs[k].page = k
        /\ reqs[k].method = (IF k = 1 THEN "GET" ELSE "POST")
        /\ k > 1 => reqs[k].data.EVENTARGUMENT = <<"Page$", k>>

\* C11: in the attendance walk and in the status walk the page-change
\* requests go to pages 2, 3, 4, ... in this order, each one more than the
\* one before, none skipped and none repeated.
C11_PageNumbersSequential == Sequential(requests) /\ Sequential(s_requests)

C11_Witness ==
    /\ Len(s_requests) = 3
    /\ s_requests[3].page = 3
    /\ s_failed # <<>>

----------------------------------------------------------------------------
(* Properties of calculate_overtime *)

\* the rows emitted so far and the rows returned
EmittedRows == SetOf(c_results) \cup SetOf(c_df)

\* C16: every row calculate_overtime emits, whatever the clock-in and the
\* clock-out of its record, has an overtime_hours between 0 and 4 (0 and 40
\* tenths of an hour).
C16_OvertimeClamped ==
    \A row \in EmittedRows : row.overtime_hours >= 0 /\ row.overtime_hours <= 40

\* rows of records far beyond four hours of overtime and of a record that
\* ends before it starts have been emitted
C16_Witness ==
    /\ c_pc = "done"
    /\ \E row \in SetOf(c_df) :
          row.total_minutes >= 1439 /\ row.overtime_hours = 40

Earlier(a, b) == IF a <= b THEN a ELSE b

\* C17: the minutes of a row are counted from the earlier of the clock-in and
\* 09:00:00, so a clock-in after 09:00:00 counts as 09:00:00 and one at or
\* before it counts as it is; two rows of one date and one clock-out whose
\* clock-ins are both after 09:00:00 have the same minutes and overtime.
C17_EffectiveStart ==
    /\ \A row \in EmittedRows :
          row.total_minutes =
              IntOf(ClockValue(row.end)
                      - Earlier(ClockValue(row.start), 9 * 3600), 60)
    /\ \A r1, r2 \in EmittedRows :
          ( /\ r1.date = r2.date
            /\ r1.end = r2.end
            /\ ClockValue(r1.start) > 9 * 3600
            /\ ClockValue(r2.start) > 9 * 3600 )
          => /\ r1.total_minutes = r2.total_minutes
             /\ r1.overtime_hours = r2.overtime_hours

\* two rows of one date and clock-out with different clock-ins after 09:00:00,
\* and a row with a clock-in before 09:00:00
C17_Witness ==
    /\ c_pc = "done"
    /\ \E r1, r2, r3 \in SetOf(c_df) :
          /\ r1.date = r2.date /\ r1.end = r2.end /\ r1.start # r2.start
          /\ ClockValue(r1.start) > 9 * 3600
          /\ ClockValue(r2.start) > 9 * 3600
          /\ ClockValue(r3.start) < 9 * 3600
          /\ r3.total_minutes = 680

\* t tenths of an hour is a tenth nearest to m minutes
NearestTenth(t, m) == 10 * m - 60 * t <= 30 /\ 60 * t - 10 * m <= 30

Limited(t) == IF t < 0 THEN 0 ELSE IF t > 40 THEN 40 ELSE t

\* C18: in every emitted row total_minutes is the whole minutes from the
\* effective start to the clock-out, and overtime_hours is
\* (total_minutes - 70 - 480 - 30) / 60 rounded to a nearest tenth and then
\* limited to 0..4; 2024/03/01 08:30:00~19:50:00 gives 680 and 1.7, and
\* 2024/03/02 09:30:00~18:30:00 gives 570 and 0.0.
C18_Arithmetic ==
    \A row \in EmittedRows :
        /\ row.total_minutes =
              IntOf(ClockValue(row.end)
                      - Earlier(ClockValue(row.start), 9 * 3600), 60)
        /\ \E t \in -200..150 :
              /\ NearestTenth(t, row.total_minutes - 70 - 480 - 30)
              /\ row.overtime_hours = Limited(t)
        /\ ( /\ row.date = DateText(2024, 3, 1)
              /\ row.start = ClockText(8, 30, 0)
              /\ row.end = ClockText(19, 50, 0) )
            => row.total_minutes = 680 /\ row.overtime_hours = 17
        /\ ( /\ row.date = DateText(2024, 3, 2)
              /\ row.start = ClockText(9, 30, 0)
              /\ row.end = ClockText(18, 30, 0) )
            => row.total_minutes = 570 /\ row.overtime_hours = 0

\* the rows of the two example records have been returned
C18_Witness ==
    /\ c_pc = "done"
    /\ \E r1, r2 \in SetOf(c_df) :
          /\ r1.date = DateText(2024, 3, 1)
          /\ r1.total_minutes = 680 /\ r1.overtime_hours = 17
          /\ r2.date = DateText(2024, 3, 2)
          /\ r2.total_minutes = 570 /\ r2.overtime_hours = 0

\* the sides of a time range with exactly one '~', else no sides
Sides(t) ==
    IF Cardinality(Tildes(t)) = 1
    THEN LET i == CHOOSE j \in Tildes(t) : TRUE
         IN  <<StripText(SubSeq(t, 1, i - 1)),
               StripText(SubSeq(t, i + 1, Len(t)))>>
    ELSE <<>>

\* the date converts, and the time range has two sides that convert
WellFormedRecord(r) ==
    /\ DateOk(r.date)
    /\ Sides(r.time_range) # <<>>
    /\ ClockOk(Sides(r.time_range)[1])
    /\ ClockOk(Sides(r.time_range)[2])

\* C19: a record whose time range has not exactly two '~'-separated parts,
\* or whose parts (or date) do not convert, is passed over and the loop goes
\* on; the rows emitted are, in order, one for each well-formed record among
\* those gone through, wherever the other records stand in the list.
C19_MalformedSkipped ==
    LET done == 1..c_idx
        good == {i \in done : WellFormedRecord(c_records[i])}
    IN  /\ Len(c_results) = Cardinality(good)
        /\ Len(c_skipped) = c_idx - Cardinality(good)
        /\ \A i \in good :
              LET row == c_results[Cardinality({j \in good : j <= i})]
              IN  /\ row.date = c_records[i].date
                  /\ row.start = Sides(c_records[i].time_range)[1]
                  /\ row.end = Sides(c_records[i].time_range)[2]
        /\ \A k \in 1..Len(c_skipped) : c_skipped[k] \notin good
        /\ c_pc = "done" => c_idx = Len(c_records) /\ Len(c_df) = Len(c_results)

\* a list with a record between two that are not well-formed has been
\* gone through
C19_Witness ==
    /\ c_pc = "done"
    /\ c_skipped = <<1, 3>>
    /\ Len(c_df) = 1

\* C20: the rows returned are the rows computed, each as often as it was
\* computed, in an order in which no row has an earlier date than the row
\* after it.
C20_SortedByDateDescending ==
    c_pc = "done" =>
        /\ Len(c_df) = Len(c_results)
        /\ \A row \in EmittedRows :
              Occurrences(c_df, row) = Occurrences(c_results, row)
        /\ \A i \in 1..(Len(c_df) - 1) :
              DateValue(c_df[i].date) >= DateValue(c_df[i + 1].date)

\* three rows computed in the order middle, earliest, latest date
C20_Witness ==
    /\ c_pc = "done"
    /\ Len(c_results) = 3
    /\ DateValue(c_results[1].date) < DateValue(c_results[2].date)
    /\ DateValue(c_results[3].date) < DateValue(c_results[2].date)
    /\ c_df # c_results

----------------------------------------------------------------------------
(* Properties of fetch_submitted_records *)

\* C21: no failure of the status walk reaches the caller as an exception:
\* fetch_submitted_records always ends by returning a dictionary.
C21_StatusNeverRaises == s_pc # "raised"

\* row k of a received document gives a record: the grid is there, the row's
\* date span carries the identifier of its position, and its minute fields,
\* if they hold a text, hold a number
GivesRecord(doc, k) ==
    /\ doc.grid
    /\ k \in 1..Len(doc.rows)
    /\ doc.rows[k].date.present
    /\ doc.rows[k].idx = k - 1
    /\ ~(doc.rows[k].overtime.present /\ doc.rows[k].overtime.kind = "text")
    /\ ~(doc.rows[k].change.present /\ doc.rows[k].change.kind = "text")

\* the places <<page, row>> of the received documents that give a record
\* for date d
PlacesOf(d) ==
    {pl \in (1..Len(s_pages)) \X (1..4) :
        /\ GivesRecord(s_pages[pl[1]], pl[2])
        /\ s_pages[pl[1]].rows[pl[2]].date.str = d}

Later(p, q) == p[1] > q[1] \/ (p[1] = q[1] /\ p[2] >= q[2])

StatusDates == {"D1", "D2"}

\* C22: the status dictionary holds exactly the dates that some row of some
\* received page gave a record for, one record per date, and the record of a
\* date is the one of the last such row of the last such page; a walk whose
\* first request did not fail returns this dictionary.
C22_LastPageWins ==
    /\ DOMAIN s_records = {d \in StatusDates : PlacesOf(d) # {}}
    /\ \A d \in DOMAIN s_records :
          LET last == CHOOSE p \in PlacesOf(d) : \A q \in PlacesOf(d) : Later(p, q)
              row == s_pages[last[1]].rows[last[2]]
          IN  /\ s_records[d].date = d
              /\ s_records[d].status =
                    (IF row.status.present THEN row.status.str ELSE "unknown")
              /\ s_records[d].overtime_minutes =
                    (IF row.overtime.present /\ row.overtime.kind = "number"
                     THEN row.overtime.val ELSE 0)
              /\ s_records[d].change_minutes =
                    (IF row.change.present /\ row.change.kind = "number"
                     THEN row.change.val ELSE 0)
    /\ (s_pc = "done" /\ s_pages # <<>>) => s_result = s_records

\* a date approved on the first page and pending on the second, and the walk
\* has returned
C22_Witness ==
    /\ s_pc = "done"
    /\ Len(s_pages) = 2
    /\ \E k \in 1..Len(s_pages[1].rows) :
          /\ GivesRecord(s_pages[1], k)
          /\ s_pages[1].rows[k].date.str = "D1"
          /\ s_pages[1].rows[k].status.str = "approved"
    /\ "D1" \in DOMAIN s_result
    /\ s_result["D1"].status = "pending"
    /\ s_result["D1"].overtime_minutes = 30

\* the field is missing, or there with an empty text
MissingOrEmpty(f) == ~f.present \/ f.kind = "empty"

\* C23: when a page arrives, each of its rows that has its date span and lacks
\* the status, overtime or change span (or has an empty overtime or change)
\* still gives the record of its date, unless a later row of the page has the
\* same date: the status is "unknown" when the status span is missing, the
\* minutes are 0 when their span is missing or empty.
C23_MissingFieldsDefault ==
    [][s_pages' # s_pages =>
        LET doc == s_pages'[Len(s_pages')]
        IN  \A k \in 1..Len(doc.rows) :
              ( /\ GivesRecord(doc, k)
                /\ \A j \in (k + 1)..Len(doc.rows) :
                      ~(GivesRecord(doc, j)
                          /\ doc.rows[j].date.str = doc.rows[k].date.str)
                /\ \/ ~doc.rows[k].status.present
                   \/ MissingOrEmpty(doc.rows[k].overtime)
                   \/ MissingOrEmpty(doc.rows[k].change) )
              => LET d == doc.rows[k].date.str
                 IN  /\ d \in DOMAIN s_records'
                     /\ ~doc.rows[k].status.present
                           => s_records'[d].status = "unknown"
                     /\ doc.rows[k].status.present
                           => s_records'[d].status = doc.rows[k].status.str
                     /\ MissingOrEmpty(doc.rows[k].overtime)
                           => s_records'[d].overtime_minutes = 0
                     /\ MissingOrEmpty(doc.rows[k].change)
                           => s_records'[d].change_minutes = 0 ]_vars

\* a row with nothing but its date has been taken into the dictionary
C23_Witness ==
    /\ Len(s_pages) = 1
    /\ Len(s_pages[1].rows) = 2
    /\ ~s_pages[1].rows[2].status.present
    /\ ~s_pages[1].rows[2].overtime.present
    /\ "D2" \in DOMAIN s_records
    /\ s_records["D2"].status = "unknown"
    /\ s_records["D2"].overtime_minutes = 0
    /\ s_records["D2"].change_minutes = 0

\* the numeric labels of the links of the first pager row of a document
NumericLabels(doc) ==
    IF doc.pager = <<>> THEN {}
    ELSE {doc.pager[1][j].n :
            j \in {i \in 1..Len(doc.pager[1]) : doc.pager[1][i].digits}}

\* C24: the page count read from the first page is the largest numeric label
\* among the links of its pager row, and 1 when the page has no pager row,
\* the row has no links, or no link has a numeric label.
C24_TotalPages ==
    s_pages # <<>> =>
        LET labels == NumericLabels(s_pages[1])
        IN  /\ labels = {} => s_total_pages = 1
            /\ labels # {} =>
                  /\ s_total_pages \in labels
                  /\ \A n \in labels : n <= s_total_pages

\* the first page's pager row shows 3 before 1
C24_Witness ==
    /\ Len(s_pages) = 1
    /\ s_pages[1].pager = << <<Label(3), Label(1)>> >>
    /\ s_total_pages = 3

----------------------------------------------------------------------------
(* Properties of both walks: requests in flight *)

\* requests of the attendance walk that have no answer yet: those sent, less
\* the pages received and the request that failed
InFlight ==
    Len(requests) - Len(shown)
        - (IF stop \in {"get_raised", "goto_raised", "goto_rejected"} THEN 1 ELSE 0)

\* the same for the status walk
StatusInFlight ==
    Len(s_requests) - Len(s_pages)
        - Cardinality({k \in 1..Len(s_failed) : s_failed[k].why = "raised"})
        - (IF s_pc = "done" /\ s_pages = <<>> /\ s_requests # <<>> THEN 1 ELSE 0)

----------------------------------------------------------------------------
(* Properties of the window *)

\* the fetch threads inside get_attendance_data
Walking == {i \in 1..Len(u_fetch_threads) : u_fetch_threads[i].pc = "walking"}

\* C26: whatever the user does (login, the fetch that follows it, refresh),
\* no two fetch threads are inside a walk on the same session at once.
C26_OneWalkPerSession ==
    \A i, j \in Walking :
        u_fetch_threads[i].session = u_fetch_threads[j].session => i = j

----------------------------------------------------------------------------
(* Properties of the table parser *)

\* the one data row of a document made from CellRows
TheRow == soup.tables[1].rows[2]

NoDateId(row) == \A i \in 1..Len(row.spans) : ~IsDateId(row.spans[i])
NoTimeId(row) == \A i \in 1..Len(row.spans) : ~IsTimeId(row.spans[i])
DateSpans(row) == {i \in 1..Len(row.spans) : IsDateText(row.spans[i])}
TimeSpans(row) == {i \in 1..Len(row.spans) : IsTimeText(row.spans[i])}

\* neither identifier is in the first cell, and a date-shaped span and a
\* span with '~' and ':' are
FallbackCase(row) ==
    /\ NoDateId(row)
    /\ NoTimeId(row)
    /\ DateSpans(row) # {}
    /\ TimeSpans(row) # {}

\* the parser returned one record holding the text of a date-shaped span and
\* of a range-like span of the row (surrounding blanks aside)
YieldsFrom(row) ==
    /\ Len(result) = 1
    /\ \E i \in DateSpans(row) : result[1].date = Strip(row.spans[i].text)
    /\ \E j \in TimeSpans(row) : result[1].time_range = CleanTime(row.spans[j].text)

\* C27 as stated: every data row of the located grid whose first cell has no
\* identified date or time span but has a date-shaped span and a span with
\* '~' and ':' yields a record with that date and that time range.
C27_FallbackYields ==
    (pc = "parsed" /\ Len(soup.tables) = 1 /\ Len(soup.tables[1].rows) = 2
        /\ IsDataRow(TheRow) /\ FallbackCase(TheRow))
      => YieldsFrom(TheRow)

\* C27 amended: such a row yields a record when it has at least three cells;
\* the record holds the stripped text of the first date-shaped span and the
\* text of the first span with '~' and ':' with all blanks removed.
C27_FallbackYieldsWide ==
    (pc = "parsed" /\ Len(soup.tables) = 1 /\ Len(soup.tables[1].rows) = 2
        /\ IsDataRow(TheRow) /\ FallbackCase(TheRow) /\ TheRow.ncells >= 3)
      => /\ Len(result) = 1
         /\ \E i \in DateSpans(TheRow) :
               /\ \A k \in DateSpans(TheRow) : i <= k
               /\ result[1].date = Strip(TheRow.spans[i].text)
         /\ \E j \in TimeSpans(TheRow) :
               /\ \A k \in TimeSpans(TheRow) : j <= k
               /\ result[1].time_range = CleanTime(TheRow.spans[j].text)

\* a three-cell row without identifiers, a padded date after another span
\* and a padded range, has given its record
C27_Witness ==
    /\ pc = "parsed"
    /\ Len(soup.tables) = 1
    /\ TheRow.ncells = 3
    /\ TheRow.spans = <<Span("", <<"x">>), Span("", <<" ", "D2", "x">>),
                        Span("", <<"T1", "nbsp", "~", "T3", " ">>)>>
    /\ result = <<[date |-> <<"D2", "x">>, time_range |-> <<"T1", "~", "T3">>]>>

\* the tables the first three matchers look at
Scope == IF soup.tabs2 THEN SelectSeq(soup.tables, InTabs2) ELSE soup.tables

\* the first table of seq t with property given by the index set I was read
ReadFirst(t, I) ==
    /\ I # {}
    /\ \E i \in I :
          /\ \A k \in I : i <= k
          /\ result = RowsToRecords(t[i].rows)

ById == {i \in 1..Len(Scope) : Scope[i].id = "ContentPlaceHolder1_gvWeb012"}
ByPattern == {i \in 1..Len(Scope) : IdPattern(Scope[i])}
ByAttrs == {i \in 1..Len(Scope) : Scope[i].attrs}
ByContent == {i \in 1..Len(soup.tables) : soup.tables[i].header}

\* C29: the matchers are tried in the order exact identifier, identifier
\* pattern, structural attributes, header phrase; the first that finds a
\* table decides which table is read, and when none does the parser returns
\* the empty list.
C29_MatcherOrder ==
    pc = "parsed" =>
        /\ matcher = "id" <=> ById # {}
        /\ matcher = "pattern" <=> (ById = {} /\ ByPattern # {})
        /\ matcher = "attrs" <=> (ById = {} /\ ByPattern = {} /\ ByAttrs # {})
        /\ matcher = "content" <=>
              (ById = {} /\ ByPattern = {} /\ ByAttrs = {} /\ ByContent # {})
        /\ matcher = "none" <=>
              (ById = {} /\ ByPattern = {} /\ ByAttrs = {} /\ ByContent = {})
        /\ matcher = "id" => ReadFirst(Scope, ById)
        /\ matcher = "pattern" => ReadFirst(Scope, ByPattern)
        /\ matcher = "attrs" => ReadFirst(Scope, ByAttrs)
        /\ matcher = "content" => ReadFirst(soup.tables, ByContent)
        /\ matcher = "none" => result = <<>>

\* a document whose first table has the grid attributes and whose second has
\* the exact identifier: the second was read
C29_Witness ==
    /\ pc = "parsed"
    /\ Len(soup.tables) = 2
    /\ soup.tables[1].attrs
    /\ soup.tables[1].id = "menu"
    /\ soup.tables[2].id = "ContentPlaceHolder1_gvWeb012"
    /\ ~soup.tabs2
    /\ matcher = "id"
    /\ result = <<[date |-> TextD2, time_range |-> RangeB]>>

----------------------------------------------------------------------------
(* Properties of two calls in a row *)

\* the second call met what the first met: the same pages (the portal's
\* script) as far as the first got, and the same ending
SameResponses ==
    /\ Len(shown) = a_first.npages
    /\ stop = a_first.stop

\* C28: page number, token, seen set and accumulated records belong to one
\* call: the second call starts at page 1 with nothing seen and nothing
\* accumulated, and when it is served what the first was served it returns
\* what the first returned, the first call's records included.
C28_WalkStateNotShared ==
    /\ [][(a_walk = 1 /\ a_walk' = 2) =>
            /\ current_page' = 1
            /\ seen_records' = {}
            /\ all_records' = <<>>
            /\ soup' = NoDoc]_vars
    /\ []((a_walk = 2 /\ pc = "done" /\ SameResponses) => result = a_first.result)

\* both calls went through two pages and returned the same records
C28_Witness ==
    /\ a_walk = 2
    /\ pc = "done"
    /\ Len(shown) = 2
    /\ a_first.npages = 2
    /\ stop = a_first.stop
    /\ result # <<>>
    /\ result = a_first.result

----------------------------------------------------------------------------
(* Properties of the status walk: which pages are requested *)

\* the pages of the page-change requests, in the order they were sent
PostPages ==
    [k \in 1..(Len(s_requests) - 1) |-> s_requests[k + 1].page]

\* min(total_pages, MAX_PAGES)
LastPage == IF s_total_pages < s_max_pages THEN s_total_pages ELSE s_max_pages

\* the pages whose request was not sent for want of a view-state
Unsent == {s_failed[k].page : k \in {j \in 1..Len(s_failed) : s_failed[j].why = "no_token"}}

----------------------------------------------------------------------------
(* Properties of the attendance walk: pages fetched and pages parsed *)

\* C31: when the walk returns, every page document it received has been
\* through the loop body (parsed and merged): the loop body ran once for each
\* page received, the last one before the budget ran out included.
C31_EveryPageParsed ==
    pc = "done" => iterations = Len(shown)

----------------------------------------------------------------------------
(* Properties of the dedup key *)

\* C32: two extracted records are collapsed only when they agree in date and
\* in time_range, so every record the parser returned is among the records
\* kept, and a page of two records that differ keeps two.
C32_KeyInjective ==
    pc = "merged" =>
        /\ \A i \in 1..Len(result) :
              \E k \in 1..Len(all_records) : all_records[k] = result[i]
        /\ (Len(result) = 2 /\ result[1] # result[2]) => Len(all_records) = 2

----------------------------------------------------------------------------
(* Properties of the window: login before fetch *)

\* the callback the main thread handles next is that of a failed login
FailedLoginNext ==
    /\ u_after # <<>>
    /\ Head(u_after).fn = "_on_login_complete"
    /\ ~Head(u_after).ok

\* C33: a walk runs only on the session of a data service that exists and
\* whose login has returned success, for the fetch after login and for a
\* refresh alike; the callback of a failed login starts no fetch.
C33_FetchAfterLogin ==
    /\ [](\A i \in Walking :
             /\ u_fetch_threads[i].session # 0
             /\ u_fetch_threads[i].session \in u_logged_in)
    /\ [][(FailedLoginNext /\ u_after' = Tail(u_after))
             => u_fetch_threads' = u_fetch_threads]_vars

====
